---- MODULE Spec2Model ----
(***************************************************************************)
(* Verification model of the cortex multi-agent assistant.                 *)
(*                                                                         *)
(*   - ProjectManager (agents/brain/project_manager.py): the SQLite tables *)
(*     projects / ideas / features / tasks and the operations on them.     *)
(*   - MessageBus (agents/common/protocol.py): the message_queue table     *)
(*     with send / receive / update_status / get_task.                     *)
(*                                                                         *)
(* Row identifiers created by uuid4 are modelled by the position of the    *)
(* row in its table (a fresh identifier on every insert).  Task ids are    *)
(* supplied by the caller (the decomposer takes them from the LLM output)  *)
(* and are therefore inputs.                                               *)
(***************************************************************************)
EXTENDS Integers, Sequences, FiniteSets, TLC

VARIABLES
    projects,   \* projects table: sequence of status, in created_at order
    ideas,      \* ideas table: sequence of status, in created_at order
    features,   \* features table: sequence of [project_id, status]
    tasks,      \* tasks table: task id -> row (stored = FALSE: no such row)
    pmLast,     \* the last ProjectManager call: [op, arg, ret, raised]
    drv,        \* a caller driving one project to completion: [pc, project, cur, visit]
    queue,      \* message_queue table: sequence of rows, position = AUTOINCREMENT id
    busLast,    \* the last MessageBus call: [op, role, limit, task, ret]
    hist,       \* what receive has returned so far: [delivered, count, requeued, gotBy]
    rx,         \* per bus connection, a receive call in progress: [pc, role, rows]
    grd,        \* the guardian: its counters and the last message it handled
    dag,        \* one complex request of the brain: subtasks, layers, execution
    sess,       \* one delegate_parallel call of the session manager
    llmc,       \* one LLMClient.generate call: its attempts and its result
    pipe,       \* one run of the brain's task pipeline on a project task
    turn,       \* the last idea or project turn of the brain and the one before it
    kc,         \* the knowledge_cache table and what wrote to it
    memdb,      \* the memories and memory_links tables and the last consolidation run
    conv,       \* the brain's conversation_history
    proc        \* one delegate call and the child process it spawned

pmVars   == <<projects, ideas, features, tasks, pmLast, drv>>
busVars  == <<queue, busLast, hist, rx>>
grdVars  == <<grd>>
dagVars  == <<dag>>
sessVars == <<sess>>
llmVars  == <<llmc>>
pipeVars == <<pipe, turn>>
kcVars   == <<kc, memdb>>
convVars == <<conv>>
procVars == <<proc>>
brainVars == <<llmVars, pipeVars, kcVars, convVars, procVars>>
nonPM    == <<busVars, grdVars, dagVars, sessVars, brainVars>>
nonBus   == <<pmVars, grdVars, dagVars, sessVars, brainVars>>
nonBusGrd == <<pmVars, dagVars, sessVars, brainVars>>
nonDag   == <<pmVars, busVars, grdVars, sessVars, brainVars>>
nonSess  == <<pmVars, busVars, grdVars, dagVars, brainVars>>
nonDagSess == <<pmVars, busVars, grdVars, brainVars>>

(***************************************************************************)
(* Bounds of the model.                                                    *)
(***************************************************************************)
MaxProjects == 2
MaxIdeas    == 2
MaxFeatures == 2
MaxTasks    == 3
MaxOrder    == 2
MaxBatch    == 2   \* ids 1..MaxBatch are inserted with arbitrary dependency lists
MaxRows     == 2   \* rows of message_queue
MaxBusTasks == 2   \* distinct task_id values on the bus
MaxLimit    == 2   \* the limit argument of receive

TaskIds == 1..MaxTasks
Orders  == 1..MaxOrder

(***************************************************************************)
(* Status vocabularies (project_manager.py dataclass comments).            *)
(***************************************************************************)
ProjectStatuses == {"planning", "in_progress", "completed", "paused"}
ActiveStatuses  == {"planning", "in_progress"}
TerminalTask    == {"completed", "skipped"}

NoFeature == 0   \* feature_id '' (legacy tasks without a feature)
NoTask    == [stored |-> FALSE, project_id |-> 0, feature_id |-> 0,
              depends_on |-> {}, status |-> "pending", order |-> 0,
              result |-> "null"]

\* The value a ProjectManager call leaves in pmLast.
Call(op, arg, ret, raised) ==
    [op |-> op, arg |-> arg, ret |-> ret, raised |-> raised]

ProjectIds == 1..Len(projects)
IdeaIds    == 1..Len(ideas)
FeatureIds == 1..Len(features)
StoredTasks == {t \in TaskIds : tasks[t].stored}

(***************************************************************************)
(* get_active_project: SELECT ... WHERE status IN ('planning',             *)
(* 'in_progress') ORDER BY created_at DESC LIMIT 1.  0 stands for None.    *)
(***************************************************************************)
GetActiveProjectPlanningForgotten ==
    LET act == {p \in ProjectIds : projects[p] = "in_progress"}
    IN  IF act = {} THEN 0 ELSE CHOOSE p \in act : \A q \in act : q <= p

GetActiveProject ==
    LET act == {p \in ProjectIds : projects[p] \in ActiveStatuses}
    IN  IF act = {} THEN 0 ELSE CHOOSE p \in act : \A q \in act : q <= p

(***************************************************************************)
(* add_idea: INSERT an idea with status 'backlog'.                         *)
(***************************************************************************)
AddIdea ==
    /\ Len(ideas) < MaxIdeas
    /\ ideas' = Append(ideas, "backlog")
    /\ pmLast' = Call("add_idea", 0, 0, FALSE)
    /\ UNCHANGED <<projects, features, tasks, drv>>
    /\ UNCHANGED nonPM

(***************************************************************************)
(* archive_idea: UPDATE ideas SET status = 'archived' WHERE id = ?.        *)
(***************************************************************************)
ArchiveIdea(i) ==
    /\ i \in IdeaIds
    /\ ideas' = [ideas EXCEPT ![i] = "archived"]
    /\ pmLast' = Call("archive_idea", 0, 0, FALSE)
    /\ UNCHANGED <<projects, features, tasks, drv>>
    /\ UNCHANGED nonPM

(***************************************************************************)
(* create_project: refuse (ValueError) when get_active_project() returns a *)
(* project, else INSERT a project with status 'planning'.                  *)
(***************************************************************************)
CreateProject ==
    /\ UNCHANGED nonPM
    /\ IF GetActiveProject # 0
       THEN /\ pmLast' = Call("create_project", 0, 0, TRUE)
            /\ UNCHANGED <<projects, ideas, features, tasks, drv>>
       ELSE /\ Len(projects) < MaxProjects
            /\ projects' = Append(projects, "planning")
            /\ pmLast' = Call("create_project", 0, Len(projects) + 1, FALSE)
            /\ UNCHANGED <<ideas, features, tasks, drv>>

(***************************************************************************)
(* promote_idea: ValueError when the idea row is missing; otherwise the    *)
(* idea is set to 'promoted' and committed, and then create_project runs   *)
(* (and may raise).                                                        *)
(***************************************************************************)
PromoteIdea(i) ==
    /\ UNCHANGED nonPM
    /\ IF i \notin IdeaIds
       THEN /\ pmLast' = Call("promote_idea", i, 0, TRUE)
            /\ UNCHANGED <<projects, ideas, features, tasks, drv>>
       ELSE /\ ideas' = [ideas EXCEPT ![i] = "promoted"]
            /\ IF GetActiveProject # 0
               THEN /\ pmLast' = Call("promote_idea", i, 0, TRUE)
                    /\ UNCHANGED projects
               ELSE /\ Len(projects) < MaxProjects
                    /\ projects' = Append(projects, "planning")
                    /\ pmLast' = Call("promote_idea", i, Len(projects) + 1, FALSE)
            /\ UNCHANGED <<features, tasks, drv>>

(***************************************************************************)
(* update_project_status: UPDATE projects SET status = ? WHERE id = ?.     *)
(***************************************************************************)
SetProjectStatus(ps, p, s) ==
    IF p \in 1..Len(ps) THEN [ps EXCEPT ![p] = s] ELSE ps

UpdateProjectStatus(p, s) ==
    /\ projects' = SetProjectStatus(projects, p, s)
    /\ pmLast' = Call("update_project_status", 0, 0, FALSE)
    /\ UNCHANGED <<ideas, features, tasks, drv>>
    /\ UNCHANGED nonPM

(***************************************************************************)
(* add_features: INSERT each feature (Feature.status defaults to pending). *)
(***************************************************************************)
RECURSIVE AppendN(_, _, _)
AppendN(s, x, n) == IF n = 0 THEN s ELSE AppendN(Append(s, x), x, n - 1)

AddFeatures(p, n) ==
    /\ p \in ProjectIds
    /\ n >= 1
    /\ Len(features) + n <= MaxFeatures
    /\ features' = AppendN(features, [project_id |-> p, status |-> "pending"], n)
    /\ pmLast' = Call("add_features", 0, 0, FALSE)
    /\ UNCHANGED <<projects, ideas, tasks, drv>>
    /\ UNCHANGED nonPM

(***************************************************************************)
(* decompose_into_tasks: INSERT every task (id is the PRIMARY KEY: a       *)
(* duplicate raises IntegrityError before commit, nothing is stored), then *)
(* update_project_status(project_id, 'in_progress').                       *)
(* new: task id -> [feature_id, depends_on, order] (Task.status defaults   *)
(* to pending and the decomposer always passes pending).                   *)
(***************************************************************************)
InsertTasks(tk, p, new) ==
    [t \in TaskIds |->
        IF t \in DOMAIN new
        THEN [stored |-> TRUE, project_id |-> p, feature_id |-> new[t].feature_id,
              depends_on |-> new[t].depends_on, status |-> "pending",
              order |-> new[t].order, result |-> "null"]
        ELSE tk[t]]

DecomposeEffect(p, new) ==
    IF DOMAIN new \cap StoredTasks # {}
    THEN /\ pmLast' = Call("decompose_into_tasks", 0, 0, TRUE)
         /\ UNCHANGED <<projects, tasks>>
    ELSE /\ tasks' = InsertTasks(tasks, p, new)
         /\ projects' = SetProjectStatus(projects, p, "in_progress")
         /\ pmLast' = Call("decompose_into_tasks", 0, 0, FALSE)

DecomposeIntoTasks(p, new) ==
    /\ p \in ProjectIds
    /\ DecomposeEffect(p, new)
    /\ UNCHANGED <<ideas, features, drv>>
    /\ UNCHANGED nonPM

(***************************************************************************)
(* _dependencies_met: True for an empty list; otherwise SELECT the rows    *)
(* whose id is IN the list (any project) and require every row FOUND to be *)
(* completed or skipped.                                                   *)
(***************************************************************************)
DependenciesMetIgnored(tk, deps) == TRUE

DependenciesMet(tk, deps) ==
    \A d \in deps \cap TaskIds : tk[d].stored => tk[d].status \in TerminalTask

(***************************************************************************)
(* get_next_task: the pending rows of the project ORDER BY "order" ASC;    *)
(* return the first whose dependencies are met, else None (0).  Rows of    *)
(* equal "order" come in an order SQL leaves unspecified: any of them.     *)
(***************************************************************************)
PendingRows(tk, p) ==
    {t \in TaskIds : tk[t].stored /\ tk[t].project_id = p /\ tk[t].status = "pending"}

NextTask(tk, p) ==
    LET ok == {t \in PendingRows(tk, p) : DependenciesMet(tk, tk[t].depends_on)}
    IN  IF ok = {} THEN {0}
        ELSE {t \in ok : \A u \in ok : tk[t].order <= tk[u].order}

GetNextTask(p) ==
    /\ p \in ProjectIds
    /\ \E t \in NextTask(tasks, p) : pmLast' = Call("get_next_task", p, t, FALSE)
    /\ UNCHANGED <<projects, ideas, features, tasks, drv>>
    /\ UNCHANGED nonPM

(***************************************************************************)
(* _auto_complete_feature: nothing for ''; count the feature's tasks that  *)
(* are not completed/skipped; on 0 set the feature completed.              *)
(***************************************************************************)
RemainingInFeature(tk, f) ==
    {t \in TaskIds : tk[t].stored /\ tk[t].feature_id = f
                     /\ tk[t].status \notin TerminalTask}

AutoCompleteFeatureNever(fs, tk, f) == fs

AutoCompleteFeature(fs, tk, f) ==
    IF f # NoFeature /\ f \in 1..Len(fs) /\ RemainingInFeature(tk, f) = {}
    THEN [fs EXCEPT ![f].status = "completed"]
    ELSE fs

(***************************************************************************)
(* complete_task: UPDATE the task to completed with its result; then, if   *)
(* the row exists, auto-complete its feature and, when no task of the      *)
(* project is left outside completed/skipped, set the project completed.   *)
(***************************************************************************)
RemainingInProject(tk, p) ==
    {t \in TaskIds : tk[t].stored /\ tk[t].project_id = p
                     /\ tk[t].status \notin TerminalTask}

CompletedTasks(tk, t) ==
    IF tk[t].stored
    THEN [tk EXCEPT ![t].status = "completed", ![t].result = "result"]
    ELSE tk

CompleteTaskEffect(t) ==
    LET tk == CompletedTasks(tasks, t)
    IN  /\ tasks' = tk
        /\ IF tk[t].stored
           THEN /\ features' = AutoCompleteFeature(features, tk, tk[t].feature_id)
                /\ projects' =
                      IF RemainingInProject(tk, tk[t].project_id) = {}
                      THEN SetProjectStatus(projects, tk[t].project_id, "completed")
                      ELSE projects
           ELSE UNCHANGED <<features, projects>>

CompleteTask(t) ==
    /\ CompleteTaskEffect(t)
    /\ pmLast' = Call("complete_task", t, 0, FALSE)
    /\ UNCHANGED <<ideas, drv>>
    /\ UNCHANGED nonPM

(***************************************************************************)
(* fail_task: UPDATE tasks SET status = 'failed', result = error.          *)
(***************************************************************************)
FailTask(t) ==
    /\ tasks' = IF tasks[t].stored
                THEN [tasks EXCEPT ![t].status = "failed", ![t].result = "error"]
                ELSE tasks
    /\ pmLast' = Call("fail_task", 0, 0, FALSE)
    /\ UNCHANGED <<projects, ideas, features, drv>>
    /\ UNCHANGED nonPM

(***************************************************************************)
(* set_task_in_progress: the task becomes in_progress and its feature, if  *)
(* still pending, becomes in_progress.                                     *)
(***************************************************************************)
SetTaskInProgress(t) ==
    /\ tasks' = IF tasks[t].stored
                THEN [tasks EXCEPT ![t].status = "in_progress"]
                ELSE tasks
    /\ features' =
          LET f == tasks[t].feature_id
          IN  IF tasks[t].stored /\ f # NoFeature /\ f \in FeatureIds
                 /\ features[f].status = "pending"
              THEN [features EXCEPT ![f].status = "in_progress"]
              ELSE features
    /\ pmLast' = Call("set_task_in_progress", 0, 0, FALSE)
    /\ UNCHANGED <<projects, ideas, drv>>
    /\ UNCHANGED nonPM

(***************************************************************************)
(* The state after ProjectManager.__init__ on a new database file.         *)
(***************************************************************************)
PMInit ==
    /\ projects = <<>>
    /\ ideas = <<>>
    /\ features = <<>>
    /\ tasks = [t \in TaskIds |-> NoTask]
    /\ pmLast = Call("init", 0, 0, FALSE)
    /\ drv = [pc |-> "idle", project |-> 0, cur |-> 0, visit |-> <<>>]


(***************************************************************************)
(* MessageBus (agents/common/protocol.py).                                 *)
(***************************************************************************)
BusRoles     == {"builder", "guardian"}            \* two of the AgentRole values
TaskStatuses == {"pending", "in_progress", "completed", "failed",
                 "needs_review", "blocked"}
BusTasks     == 1..MaxBusTasks
Limits       == 1..MaxLimit
Connections  == {"c1", "c2"}                       \* MessageBus instances on one file

RowIds == 1..Len(queue)

BusCall(op, role, limit, task, ret) ==
    [op |-> op, role |-> role, limit |-> limit, task |-> task, ret |-> ret]

RECURSIVE Ascending(_)
Ascending(S) ==
    IF S = {} THEN <<>>
    ELSE LET m == CHOOSE x \in S : \A y \in S : x <= y
         IN  <<m>> \o Ascending(S \ {m})

RECURSIVE Descending(_)
Descending(S) ==
    IF S = {} THEN <<>>
    ELSE LET m == CHOOSE x \in S : \A y \in S : y <= x
         IN  <<m>> \o Descending(S \ {m})

Take(sq, n) == SubSeq(sq, 1, IF Len(sq) < n THEN Len(sq) ELSE n)

Range(sq) == {sq[i] : i \in 1..Len(sq)}

(***************************************************************************)
(* send: INSERT one row carrying the message's fields; the row id is the   *)
(* next AUTOINCREMENT value.  AgentMessage defaults: status pending, no    *)
(* result, no error (BaseAgent.send_to builds every message that way).     *)
(***************************************************************************)
NewRow(task, from, role) ==
    [task_id |-> task, from_agent |-> from, to_agent |-> role,
     status |-> "pending", result |-> "null", error |-> "null"]

Send(task, role) ==
    /\ Len(queue) < MaxRows
    /\ queue' = Append(queue, NewRow(task, "brain", role))
    /\ busLast' = BusCall("send", "none", 0, 0, <<>>)
    /\ UNCHANGED <<hist, rx>>
    /\ UNCHANGED nonBus

(***************************************************************************)
(* receive, the SELECT: the ids of the rows WHERE to_agent = ? AND         *)
(* status = 'pending' ORDER BY id ASC LIMIT ?.                             *)
(***************************************************************************)
SelectPendingDesc(q, role, limit) ==
    Take(Descending({i \in 1..Len(q) : q[i].to_agent = role
                                        /\ q[i].status = "pending"}), limit)

SelectPending(q, role, limit) ==
    Take(Ascending({i \in 1..Len(q) : q[i].to_agent = role
                                       /\ q[i].status = "pending"}), limit)

(***************************************************************************)
(* receive, the loop of UPDATE ... SET status = 'in_progress' WHERE id = ? *)
(* over the selected rows, and the commit.                                 *)
(***************************************************************************)
MarkNothing(q, rows) == q

MarkInProgress(q, rows) ==
    [i \in 1..Len(q) |->
        IF i \in Range(rows) THEN [q[i] EXCEPT !.status = "in_progress"] ELSE q[i]]

\* The record of a return of `rows` to connection c.
RECURSIVE AppendNew(_, _)
AppendNew(sq, rows) ==
    IF rows = <<>> THEN sq
    ELSE AppendNew(IF Head(rows) \in Range(sq) THEN sq ELSE Append(sq, Head(rows)),
                   Tail(rows))

Returned(h, rows, c) ==
    [delivered |-> AppendNew(h.delivered, rows),
     count     |-> [i \in 1..MaxRows |->
                      IF i \in Range(rows) /\ h.count[i] < 2
                      THEN h.count[i] + 1 ELSE h.count[i]],
     requeued  |-> h.requeued \ Range(rows),
     gotBy     |-> [i \in 1..MaxRows |->
                      IF i \in Range(rows) THEN h.gotBy[i] \cup {c} ELSE h.gotBy[i]]]

(***************************************************************************)
(* receive called on a connection while no other connection is inside a    *)
(* receive: SELECT, the UPDATEs, commit, return.                           *)
(***************************************************************************)
Receive(role, limit) ==
    /\ UNCHANGED nonBus
    /\ LET rows == SelectPending(queue, role, limit)
       IN  /\ \A c \in Connections : rx[c].pc = "idle"
           /\ queue' = MarkInProgress(queue, rows)
           /\ busLast' = BusCall("receive", role, limit, 0, rows)
           /\ hist' = Returned(hist, rows, "c1")
           /\ UNCHANGED rx

(***************************************************************************)
(* receive on connection c in two steps, for callers on separate           *)
(* connections: the SELECT runs in autocommit mode (sqlite3 opens the      *)
(* transaction at the first UPDATE), so another connection may read or     *)
(* write between the SELECT and the UPDATEs.  The UPDATEs and the commit   *)
(* hold the write lock and are one step.                                   *)
(***************************************************************************)
RecvSelect(c, role, limit) ==
    /\ rx[c].pc = "idle"
    /\ rx' = [rx EXCEPT ![c] = [pc |-> "selected", role |-> role,
                                rows |-> SelectPending(queue, role, limit)]]
    /\ busLast' = BusCall("select", role, limit, 0, <<>>)
    /\ UNCHANGED <<queue, hist>>
    /\ UNCHANGED nonBus

RecvMark(c) ==
    /\ rx[c].pc = "selected"
    /\ queue' = MarkInProgress(queue, rx[c].rows)
    /\ busLast' = BusCall("receive", rx[c].role, 0, 0, rx[c].rows)
    /\ hist' = Returned(hist, rx[c].rows, c)
    /\ rx' = [rx EXCEPT ![c] = [pc |-> "idle", role |-> "none", rows |-> <<>>]]
    /\ UNCHANGED nonBus

(***************************************************************************)
(* update_status: UPDATE message_queue SET status = ?, result = ?,         *)
(* error = ? WHERE task_id = ?  (result None is stored as NULL).           *)
(***************************************************************************)
UpdatedRows(q, task, status, result, error) ==
    [i \in 1..Len(q) |->
        IF q[i].task_id = task
        THEN [q[i] EXCEPT !.status = status, !.result = result, !.error = error]
        ELSE q[i]]

UpdateStatus(task, status, result, error) ==
    /\ UNCHANGED nonBus
    /\ LET hit == {i \in RowIds : queue[i].task_id = task}
       IN  /\ queue' = UpdatedRows(queue, task, status, result, error)
           /\ busLast' = BusCall("update_status", "none", 0, task, <<>>)
           /\ hist' = [hist EXCEPT !.requeued =
                         IF status = "pending"
                         THEN @ \cup {i \in hit : hist.count[i] > 0}
                         ELSE @ \ hit]
           /\ UNCHANGED rx

(***************************************************************************)
(* get_task: SELECT ... WHERE task_id = ? ORDER BY id DESC LIMIT 1; the    *)
(* row id, 0 for None.                                                     *)
(***************************************************************************)
LatestRow(q, task) ==
    LET hit == {i \in 1..Len(q) : q[i].task_id = task}
    IN  IF hit = {} THEN 0 ELSE CHOOSE i \in hit : \A j \in hit : j <= i

(***************************************************************************)
(* The state after MessageBus.__init__ on a new database file.             *)
(***************************************************************************)
BusInit ==
    /\ queue = <<>>
    /\ busLast = BusCall("init", "none", 0, 0, <<>>)
    /\ hist = [delivered |-> <<>>, count |-> [i \in 1..MaxRows |-> 0],
               requeued |-> {}, gotBy |-> [i \in 1..MaxRows |-> {}]]
    /\ rx = [c \in Connections |-> [pc |-> "idle", role |-> "none", rows |-> <<>>]]

(***************************************************************************)
(* Guardian (agents/guardian/guardian.py): the intercept loop over the     *)
(* rows of message_queue, the direct loop over the messages addressed to   *)
(* the guardian, and the daily token counter.                              *)
(*                                                                         *)
(* A message's result is one of: "null" (None), "result" (nothing a scan   *)
(* finds), "secret" (matches a SECRET_PATTERNS entry), "risky" (matches a  *)
(* SQL_INJECTION_PATTERNS entry or the path traversal test).  Payloads and *)
(* contexts hold nothing a scan finds.  Token counts are in units of which *)
(* DailyBudget make up COST_BUDGET_DAILY_TOKENS.                           *)
(***************************************************************************)
DailyBudget == 2   \* _daily_token_budget, in units
MaxTokens   == 1   \* largest usage.total_tokens one message reports, in units
MaxDays     == 1   \* changes of the UTC date

WARN_THRESHOLD_PCT  == 50
ALERT_THRESHOLD_PCT == 80
BLOCK_THRESHOLD_PCT == 100
DirectLimit         == 5    \* receive(AgentRole.GUARDIAN, limit=5)

Senders      == {"brain", "builder", "guardian"}   \* from_agent values
ResultKinds  == {"null", "result", "secret", "risky"}
Finished     == {"completed", "failed"}
\* What _llm_security_review reports: nothing, a critical issue, or a
\* critical issue whose description is the empty string.
LlmFindings  == {"none", "critical", "critical_nodesc"}

(***************************************************************************)
(* send by an agent whose message carries metadata["usage"]: the INSERT    *)
(* names eleven columns and metadata is none of them, so the row does not  *)
(* hold the usage.  grd.reported remembers what the senders reported.      *)
(***************************************************************************)
AgentSend(task, from, role, tokens) ==
    /\ Len(queue) < MaxRows
    /\ queue' = Append(queue, NewRow(task, from, role))
    /\ busLast' = BusCall("send", "none", 0, 0, <<>>)
    /\ grd' = [grd EXCEPT !.reported = @ + tokens]
    /\ UNCHANGED <<hist, rx>>
    /\ UNCHANGED nonBusGrd

(***************************************************************************)
(* get_task as the message it returns: the fields of the latest row of the *)
(* task; metadata is not passed to AgentMessage and is the default {}.     *)
(***************************************************************************)
GetTask(q, task) ==
    LET i == LatestRow(q, task)
    IN  [row |-> i, from_agent |-> q[i].from_agent, status |-> q[i].status,
         result |-> q[i].result, error |-> q[i].error, metadata |-> {}]

\* _track_tokens: msg.metadata.get("usage", {}).get("total_tokens", 0)
UsageOf(msg) == IF "usage" \in msg.metadata THEN MaxTokens ELSE 0

TrackTokens(count, msg) == IF UsageOf(msg) > 0 THEN count + UsageOf(msg) ELSE count

\* _fast_scan over the result text: the severities of the issues found.
FastScan(msg) ==
    IF msg.result = "secret" THEN {"critical"}
    ELSE IF msg.result = "risky" THEN {"high"}
    ELSE {}

\* _check_budget: pct = total / budget * 100 against the three thresholds.
CheckBudget(total) ==
    IF DailyBudget = 0 THEN {}
    ELSE IF total * 100 >= BLOCK_THRESHOLD_PCT * DailyBudget THEN {"critical"}
    ELSE IF total * 100 >= ALERT_THRESHOLD_PCT * DailyBudget THEN {"high"}
    ELSE IF total * 100 >= WARN_THRESHOLD_PCT * DailyBudget THEN {"medium"}
    ELSE {}

\* _determine_verdict over the severities of all issues.
DetermineVerdict(sev) ==
    IF sev = {} THEN "pass"
    ELSE IF "critical" \in sev THEN "block"
    ELSE IF "high" \in sev THEN "flag"
    ELSE IF "medium" \in sev THEN "flag"
    ELSE "pass"

(***************************************************************************)
(* _handle_intercept on the message msg, the LLM review reporting llm:     *)
(* the verdict, "skip" when the handler returns before scanning.           *)
(***************************************************************************)
LlmReviewed(msg, llm) ==
    msg.from_agent = "builder" /\ msg.result # "null" /\ llm # "none"

InterceptVerdict(msg, count, llm) ==
    IF msg.from_agent = "guardian" THEN "skip"
    ELSE IF msg.status \in {"pending", "in_progress"} THEN "skip"
    ELSE DetermineVerdict(
            FastScan(msg) \cup CheckBudget(count)
            \cup (IF LlmReviewed(msg, llm) THEN {"critical"} ELSE {}))

(***************************************************************************)
(* The block branch: block_reason joins the descriptions of the critical   *)
(* issues with "; " (the scan's and the budget's descriptions are never    *)
(* empty, the LLM's may be), and the error written is                      *)
(* block_reason or "Security review failed".                               *)
(***************************************************************************)
BlockReason(msg, count, llm) ==
    IF \/ "critical" \in FastScan(msg)
       \/ "critical" \in CheckBudget(count)
       \/ (LlmReviewed(msg, llm) /\ llm = "critical")
    THEN "reason" ELSE ""

BlockErrorNoFallback(reason) == reason

BlockError(reason) == IF reason = "" THEN "Security review failed" ELSE reason

(***************************************************************************)
(* One turn of the loop body of _run_intercept_loop: the next row with     *)
(* id > _last_scanned_id AND from_agent != 'guardian', get_task on its     *)
(* task_id, _handle_intercept on the message.  A block verdict calls       *)
(* update_status(task_id, BLOCKED, error=reason) with a non-empty reason;  *)
(* a flag verdict sets guardian_flags in the metadata of the message       *)
(* object at hand.                                                         *)
(***************************************************************************)
InterceptScan(llm) ==
    LET cand == {i \in RowIds : i > grd.last /\ queue[i].from_agent # "guardian"}
        i    == CHOOSE x \in cand : \A y \in cand : x <= y
        msg  == GetTask(queue, queue[i].task_id)
        cnt  == TrackTokens(grd.tokens, msg)
        v    == InterceptVerdict(msg, cnt, llm)
        hit  == {j \in RowIds : queue[j].task_id = queue[i].task_id}
    IN  /\ cand # {}
        /\ grd' = [grd EXCEPT !.last = i, !.tokens = cnt, !.scanned = @ + 1,
                              !.row = i, !.msg = msg.row,
                              !.verdict = v,
                              !.memflags = (v = "flag")]
        /\ IF v = "block"
           THEN /\ queue' = UpdatedRows(queue, queue[i].task_id, "blocked",
                                        "null",
                                        BlockError(BlockReason(msg, cnt, llm)))
                /\ busLast' = BusCall("update_status", "none", 0,
                                      queue[i].task_id, <<>>)
                /\ hist' = [hist EXCEPT !.requeued = @ \ hit]
           ELSE UNCHANGED <<queue, busLast, hist>>
        /\ UNCHANGED rx
        /\ UNCHANGED nonBusGrd

(***************************************************************************)
(* _run_direct_loop: receive(GUARDIAN, limit=5), then for each message     *)
(* handle_task (a report, always non-empty) and                            *)
(* update_status(task_id, COMPLETED, result=report).  handle_task awaits,  *)
(* so other coroutines run between the receive and each update.            *)
(***************************************************************************)
DirectReceive ==
    LET rows == SelectPending(queue, "guardian", DirectLimit)
    IN  /\ grd.inbox = <<>>
        /\ rows # <<>>
        /\ \A c \in Connections : rx[c].pc = "idle"
        /\ queue' = MarkInProgress(queue, rows)
        /\ busLast' = BusCall("receive", "guardian", DirectLimit, 0, rows)
        /\ hist' = Returned(hist, rows, "c1")
        /\ grd' = [grd EXCEPT !.inbox = rows]
        /\ UNCHANGED rx
        /\ UNCHANGED nonBusGrd

DirectReply ==
    /\ grd.inbox # <<>>
    /\ LET task == queue[Head(grd.inbox)].task_id
           hit  == {j \in RowIds : queue[j].task_id = task}
       IN  /\ queue' = UpdatedRows(queue, task, "completed", "result", "null")
           /\ busLast' = BusCall("update_status", "none", 0, task, <<>>)
           /\ hist' = [hist EXCEPT !.requeued = @ \ hit]
    /\ grd' = [grd EXCEPT !.inbox = Tail(@)]
    /\ UNCHANGED rx
    /\ UNCHANGED nonBusGrd

(***************************************************************************)
(* The daily reset of _rotate_cost_counters / _run_cost_reset_loop when    *)
(* the UTC date has changed: _token_counts.clear().                        *)
(***************************************************************************)
CostReset ==
    /\ grd.day < MaxDays
    /\ grd' = [grd EXCEPT !.tokens = 0, !.reported = 0, !.day = @ + 1]
    /\ UNCHANGED busVars
    /\ UNCHANGED nonBusGrd

GrdInit ==
    grd = [last |-> 0, tokens |-> 0, reported |-> 0, scanned |-> 0,
           day |-> 0, row |-> 0, msg |-> 0, verdict |-> "none",
           memflags |-> FALSE, inbox |-> <<>>]

(***************************************************************************)
(* Brain._build_execution_layers (agents/brain/brain.py).  Subtasks are    *)
(* indexed from 0 as in the source; a subtask is [agent, action,           *)
(* depends_on], depends_on a list of integers taken from the LLM output    *)
(* (any integers: out of range, the subtask's own index, cycles).          *)
(***************************************************************************)
MaxSubtasks == 3   \* subtasks of one request
MaxDeps     == 2   \* entries of one depends_on list

KeepFirst(a, b) == a

Max2(a, b) == IF a >= b THEN a ELSE b

\* The value of assign_layer(idx, visited) together with its effects:
\* la = layers_assigned, ret = the value returned, calls = the number of
\* assign_layer calls made so far, warned = the indices at which "Circular
\* dependency at subtask idx" was logged.
RECURSIVE AssignLayer(_, _, _, _)
RECURSIVE OverDeps(_, _, _, _, _, _)

\* The loop "for dep_idx in deps" from position k on; acc carries la, calls,
\* warned and max_dep_layer (in ret).
OverDeps(st, idx, visited, acc, deps, k) ==
    IF k > Len(deps) THEN acc
    ELSE LET d == deps[k]
             n == Len(st)
         IN  IF 0 <= d /\ d < n
             THEN LET r == AssignLayer(st, d, visited,
                                       [acc EXCEPT !.ret = 0])
                  IN  OverDeps(st, idx, visited,
                               [r EXCEPT !.ret = Max2(acc.ret, r.ret)],
                               deps, k + 1)
             ELSE OverDeps(st, idx, visited, acc, deps, k + 1)

AssignLayer(st, idx, visited, acc) ==
    LET a == [acc EXCEPT !.calls = @ + 1]
    IN  IF a.la[idx + 1] >= 0 THEN [a EXCEPT !.ret = a.la[idx + 1]]
        ELSE IF idx \in visited
        THEN [a EXCEPT !.ret = 0, !.warned = @ \cup {idx}]
        ELSE LET deps == st[idx + 1].depends_on
             IN  IF deps = <<>>
                 THEN [a EXCEPT !.la[idx + 1] = 0, !.ret = 0]
                 ELSE LET r == OverDeps(st, idx, visited \cup {idx},
                                        [a EXCEPT !.ret = 0], deps, 1)
                      IN  [r EXCEPT !.la[idx + 1] = r.ret + 1,
                                    !.ret = r.ret + 1]

\* "for i in range(n): assign_layer(i, set())" from index i on.
RECURSIVE AssignAll(_, _, _)
AssignAll(st, i, acc) ==
    IF i >= Len(st) THEN acc
    ELSE AssignAll(st, i + 1, AssignLayer(st, i, {}, acc))

AssignStart(st) ==
    [la |-> [i \in 1..Len(st) |-> -1], ret |-> 0, calls |-> 0, warned |-> {}]

\* max(layers_assigned) if layers_assigned else 0
MaxOf(sq) ==
    IF Len(sq) = 0 THEN 0
    ELSE LET S == {sq[i] : i \in 1..Len(sq)}
         IN  CHOOSE m \in S : \A x \in S : x <= m

\* "Group by layer": layers[k] lists the indices with layers_assigned = k,
\* in index order; position k + 1 of the sequence is layer k.
GroupByLayerFromOne(la) ==
    [k \in 1..MaxOf(la) |->
        Ascending({i \in 0..(Len(la) - 1) : la[i + 1] = k})]

GroupByLayer(la) ==
    [k \in 1..(MaxOf(la) + 1) |->
        Ascending({i \in 0..(Len(la) - 1) : la[i + 1] = k - 1})]

\* The locals of _handle_complex: k = layer_idx, all_results = the dict
\* (one entry [key, idx, status] per key, idx the subtask whose reply is
\* stored), ctx[i] = the subtasks whose results are in the prior_results of
\* subtask i's context, dispatched / returned = the subtasks handed to
\* delegate_parallel and those whose reply has come back, timedout = the
\* subtasks whose delegation ended in a timeout, llm_result = what the
\* synthesis call of generate gave, reply = what _synthesize_multi returned.
NoReply == [kind |-> "none", parts |-> {}, synthesis_failed |-> FALSE]

DagIdle ==
    [pc |-> "idle", subtasks |-> <<>>, la |-> <<>>, layers |-> <<>>,
     calls |-> 0, warned |-> {}, k |-> 0, all_results |-> {},
     ctx |-> <<>>, dispatched |-> {}, returned |-> {}, timedout |-> {},
     llm_result |-> "none", reply |-> NoReply]

(***************************************************************************)
(* _handle_complex up to the call of _build_execution_layers: the subtasks *)
(* come from the classifier or from _decompose (a non-empty list).         *)
(***************************************************************************)
DagSubmit(st) ==
    /\ dag.pc = "idle"
    /\ sess.pc = "idle"
    /\ dag' = [DagIdle EXCEPT !.pc = "submitted", !.subtasks = st,
                              !.ctx = [i \in 0..(Len(st) - 1) |-> {}]]
    /\ UNCHANGED nonDag

BuildExecutionLayers ==
    /\ dag.pc = "submitted"
    /\ LET r == AssignAll(dag.subtasks, 0, AssignStart(dag.subtasks))
       IN  dag' = [dag EXCEPT !.pc = "built", !.la = r.la,
                              !.layers = GroupByLayer(r.la),
                              !.calls = r.calls, !.warned = r.warned]
    /\ UNCHANGED nonDag

DagInit == dag = DagIdle

(***************************************************************************)
(* AgentSessionManager.delegate_parallel (agents/session_manager.py).      *)
(* sess.tasks lists the agent names of the submitted DelegationTasks,      *)
(* sess.ch[i] is the state of the i-th delegate coroutine ("running" or    *)
(* the way it ended), sess.fin the positions in the order they ended.      *)
(***************************************************************************)
MaxParallel == 3   \* tasks of one delegate_parallel call

AgentNames == {"builder", "researcher"}

\* How one delegate call can end: the session's output, a timeout of
\* wait_for, a failed session (both caught inside delegate), or an exception
\* raised before the try block (_get_config, _build_system_prompt).
Fates == {"ok", "timeout", "error", "raise"}

SessIdle == [pc |-> "idle", tasks |-> <<>>, ch |-> <<>>, fin |-> <<>>,
             results |-> <<>>]

\* What the i-th coroutine leaves for gather: a DelegationResult, or the
\* exception it raised.
DelegateOutcome(agent, i, fate) ==
    IF fate = "raise"
    THEN [kind |-> "exception", agent_name |-> agent, child |-> i,
          success |-> FALSE, error |-> "raised"]
    ELSE [kind |-> "result", agent_name |-> agent, child |-> i,
          success |-> (fate = "ok"),
          error |-> IF fate = "ok" THEN "null" ELSE fate]

\* asyncio.gather(*coros): without return_exceptions the first exception
\* propagates to the caller and no list is returned.
GatherNoReturnExceptions(dts, ch) ==
    IF \E i \in 1..Len(ch) : ch[i] = "raise" THEN <<>>
    ELSE [i \in 1..Len(ch) |-> DelegateOutcome(dts[i], i, ch[i])]

\* asyncio.gather(*coros, return_exceptions=True): one entry per coroutine,
\* in the order of coros.
Gather(dts, ch) ==
    [i \in 1..Len(ch) |-> DelegateOutcome(dts[i], i, ch[i])]

Min2(a, b) == IF a <= b THEN a ELSE b

\* for task, result in zip(tasks, raw_results): exceptions become failures.
ConvertRaw(dts, raw) ==
    [i \in 1..Min2(Len(dts), Len(raw)) |->
        IF raw[i].kind = "exception"
        THEN [kind |-> "result", agent_name |-> dts[i], child |-> raw[i].child,
              success |-> FALSE, error |-> raw[i].error]
        ELSE raw[i]]

\* The coroutines of delegate_parallel(tasks) have been created.
DelegateStart(dts) ==
    [pc |-> "running", tasks |-> dts,
     ch |-> [i \in 1..Len(dts) |-> "running"], fin |-> <<>>,
     results |-> <<>>]

\* delegate_parallel called on its own (not from _handle_complex).
DelegateParallel(dts) ==
    /\ sess.pc = "idle"
    /\ dag.pc = "idle"
    /\ sess' = DelegateStart(dts)
    /\ UNCHANGED nonSess

\* The i-th delegate coroutine ends.
ChildFinish(i, fate) ==
    /\ sess.pc = "running"
    /\ i \in 1..Len(sess.ch)
    /\ sess.ch[i] = "running"
    /\ sess' = [sess EXCEPT !.ch[i] = fate, !.fin = Append(@, i)]
    /\ UNCHANGED nonSess

\* gather returns once every coroutine has ended; the loop over
\* zip(tasks, raw_results) builds the list delegate_parallel returns.
GatherResults ==
    /\ sess.pc = "running"
    /\ \A i \in 1..Len(sess.ch) : sess.ch[i] # "running"
    /\ sess' = [sess EXCEPT !.pc = "done",
                            !.results = ConvertRaw(sess.tasks,
                                                   Gather(sess.tasks, sess.ch))]
    /\ UNCHANGED nonSess

\* The caller of a stand-alone delegate_parallel takes the list.
SessReturn ==
    /\ sess.pc = "done"
    /\ dag.pc = "idle"
    /\ sess' = SessIdle
    /\ UNCHANGED nonSess

SessInit == sess = SessIdle

(***************************************************************************)
(* The layer loop of _handle_complex.                                      *)
(***************************************************************************)
TaskKey(task) == <<task.agent, task.action>>

\* all_results[task_key] = {...}: an existing entry with the key is replaced.
PutResult(ar, key, idx, success) ==
    {e \in ar : e.key # key}
        \cup {[key |-> key, idx |-> idx,
               status |-> IF success THEN "completed" ELSE "failed"]}

\* for task, reply in zip(layer, replies), from position j on.
RECURSIVE CollectFrom(_, _, _, _, _)
CollectFrom(ar, st, layer, replies, j) ==
    IF j > Min2(Len(layer), Len(replies)) THEN ar
    ELSE CollectFrom(PutResult(ar, TaskKey(st[layer[j] + 1]), layer[j],
                               replies[j].success),
                     st, layer, replies, j + 1)

\* The body of the loop up to "await delegate_parallel": the contexts of the
\* layer's tasks are built from all_results and the layer is handed over.
DagDispatch ==
    /\ dag.pc = "built"
    /\ dag.k < Len(dag.layers)
    /\ sess.pc = "idle"
    /\ LET layer == dag.layers[dag.k + 1]
           prior == {e.idx : e \in dag.all_results}
       IN  /\ dag' = [dag EXCEPT
                 !.pc = "waiting",
                 !.ctx = [i \in DOMAIN dag.ctx |->
                             IF i \in Range(layer) THEN prior ELSE dag.ctx[i]],
                 !.dispatched = @ \cup Range(layer)]
           /\ sess' = DelegateStart([j \in 1..Len(layer) |->
                                        dag.subtasks[layer[j] + 1].agent])
    /\ UNCHANGED nonDagSess

\* delegate_parallel has returned: the replies are stored under their task
\* keys and the loop moves to the next layer (or to the synthesis).
DagCollect ==
    /\ dag.pc = "waiting"
    /\ sess.pc = "done"
    /\ LET layer == dag.layers[dag.k + 1]
           m     == Min2(Len(layer), Len(sess.results))
       IN  dag' = [dag EXCEPT
               !.pc = IF dag.k + 1 = Len(dag.layers) THEN "done" ELSE "built",
               !.k = @ + 1,
               !.all_results = CollectFrom(@, dag.subtasks, layer,
                                           sess.results, 1),
               !.returned = @ \cup {layer[j] : j \in 1..m},
               !.timedout = @ \cup {layer[j] : j \in
                                {n \in 1..m : sess.results[n].error = "timeout"}}]
    /\ sess' = SessIdle
    /\ UNCHANGED nonDagSess

\* _handle_complex has returned the reply; the next complex request can come.
DagFinish ==
    /\ dag.pc = "replied"
    /\ dag' = DagIdle
    /\ UNCHANGED nonDag

(***************************************************************************)
(* LLMClient.generate and _call_with_resilience (agents/common/            *)
(* llm_client.py).  One call of the provider function fn ends in one of    *)
(* AttemptOutcomes: "ok" (a response), "timeout" (asyncio.wait_for gave    *)
(* up), "httpNNN" (raise_for_status raised HTTPStatusError NNN),           *)
(* "httpx_timeout" (httpx.TimeoutException) or "exc" (any other            *)
(* exception).  llmc.seen lists the outcomes of the calls of fn made so    *)
(* far, llmc.result is what generate returned.                             *)
(***************************************************************************)
ServerErrors == {"http500", "http501", "http502", "http503", "http504"}   \* HTTP 5xx

\* elif status in (500, 502, 503)
RetriedServerErrors == {"http500", "http502", "http503"}

HttpErrors == {"http401", "http429", "http400"} \cup ServerErrors

AttemptOutcomes == {"ok", "timeout", "httpx_timeout", "exc"} \cup HttpErrors

RateLimitRetries == 3   \* for attempt, delay in enumerate([2, 4, 8])

LlmIdle == [pc |-> "idle", seen |-> <<>>, result |-> "none"]

\* generate is called: _call_with_resilience is about to call fn.
LlmGenerate ==
    /\ llmc.pc = "idle"
    /\ llmc' = [LlmIdle EXCEPT !.pc = "first"]
    /\ UNCHANGED <<pmVars, busVars, grdVars, dagVars, sessVars>>
    /\ UNCHANGED <<pipeVars, kcVars, convVars, procVars>>

\* Where _call_with_resilience goes after the first call of fn ended as o:
\* "done" with a response or an error record, or on to one of its retries.
AfterFirst(o) ==
    IF o = "ok" THEN [pc |-> "done", result |-> "content"]
    ELSE IF o = "timeout" THEN [pc |-> "retry_timeout", result |-> "none"]
    ELSE IF o = "http429" THEN [pc |-> "retry_429", result |-> "none"]
    ELSE IF o \in RetriedServerErrors THEN [pc |-> "retry_5xx", result |-> "none"]
    ELSE IF o = "httpx_timeout" THEN [pc |-> "retry_httpx", result |-> "none"]
    ELSE [pc |-> "done", result |-> "error"]

\* The retries in the rate-limit branch: a response ends the call, 429 goes
\* on to the next delay (an error record after the third), any other
\* HTTPStatusError gives an error record; any other exception leaves
\* _call_with_resilience and is turned into an error record by generate.
After429(o, made) ==
    IF o = "ok" THEN [pc |-> "done", result |-> "content"]
    ELSE IF o = "http429" /\ made < RateLimitRetries
    THEN [pc |-> "retry_429", result |-> "none"]
    ELSE [pc |-> "done", result |-> "error"]

\* The single retry of the other branches.
AfterRetry(o) ==
    IF o = "ok" THEN [pc |-> "done", result |-> "content"]
    ELSE [pc |-> "done", result |-> "error"]

\* One call of fn ends as o.
LlmAttempt(o) ==
    /\ llmc.pc \in {"first", "retry_timeout", "retry_429", "retry_5xx",
                    "retry_httpx"}
    /\ LET nx == IF llmc.pc = "first" THEN AfterFirst(o)
                 ELSE IF llmc.pc = "retry_429"
                 THEN After429(o, Len(llmc.seen))
                 ELSE AfterRetry(o)
       IN  llmc' = [pc |-> nx.pc, seen |-> Append(llmc.seen, o),
                    result |-> nx.result]
    /\ UNCHANGED <<pmVars, busVars, grdVars, dagVars, sessVars>>
    /\ UNCHANGED <<pipeVars, kcVars, convVars, procVars>>

\* The caller has taken the result of generate.
LlmReturn ==
    /\ llmc.pc = "done"
    /\ llmc' = LlmIdle
    /\ UNCHANGED <<pmVars, busVars, grdVars, dagVars, sessVars>>
    /\ UNCHANGED <<pipeVars, kcVars, convVars, procVars>>

LlmInit == llmc = LlmIdle

\* What generate can hand to its caller: the results _call_with_resilience
\* ends with on some outcome of some call of fn.  generate catches every
\* Exception itself, so it has no raising outcome.
GenerateResults ==
    ({AfterFirst(o).result : o \in AttemptOutcomes}
        \cup {AfterRetry(o).result : o \in AttemptOutcomes}
        \cup {After429(o, m).result :
                  o \in AttemptOutcomes, m \in 1..RateLimitRetries})
    \ {"none"}

(***************************************************************************)
(* _synthesize_multi (agents/brain/brain.py).  out is how the call of      *)
(* self.llm.generate ended: "content" (a response), "error" (the error     *)
(* record, whose content is the empty string) or "raise" (an exception,    *)
(* which only an llm object other than LLMClient can produce).  The reply  *)
(* is "llm_content" (the model's text), "empty" (the empty string),        *)
(* "concat" (the content / notes of the subtasks in parts, joined) or      *)
(* "apology" (the fixed sentence).  Every completed worker result is taken *)
(* to have a non-empty content or notes field.                             *)
(***************************************************************************)
CompletedParts(ar) == {e.idx : e \in {x \in ar : x.status = "completed"}}

SynthesizeMulti(ar, out) ==
    IF out = "content"
    THEN [kind |-> "llm_content", parts |-> {}, synthesis_failed |-> FALSE]
    ELSE IF out = "error"
    THEN [kind |-> "empty", parts |-> {}, synthesis_failed |-> FALSE]
    ELSE IF CompletedParts(ar) # {}
    THEN [kind |-> "concat", parts |-> CompletedParts(ar),
          synthesis_failed |-> TRUE]
    ELSE [kind |-> "apology", parts |-> {}, synthesis_failed |-> TRUE]

\* return await self._synthesize_multi(user_message, all_results)
DagSynthesize(out) ==
    /\ dag.pc = "done"
    /\ dag' = [dag EXCEPT !.pc = "replied", !.llm_result = out,
                          !.reply = SynthesizeMulti(dag.all_results, out)]
    /\ UNCHANGED nonDag

(***************************************************************************)
(* _advance_project and _execute_task_pipeline (agents/brain/brain.py).    *)
(* pipe.task is the task the pipeline runs for pipe.project; research,     *)
(* builds, verifies and guards count the delegations to the researcher,    *)
(* the builder (build and revisions), the verifier and the guardian;       *)
(* retries is the local variable of the verifier loop; outcome tells how   *)
(* the pipeline ended; vreply and greply are what the last verifier and    *)
(* guardian sessions gave.  The brain handles one message at a time, so no     *)
(* other project-manager call runs between two steps of a pipeline.        *)
(***************************************************************************)
MAX_BUILDER_RETRIES == 2

PipeIdle ==
    [pc |-> "idle", project |-> 0, task |-> 0, research |-> 0, builds |-> 0,
     verifies |-> 0, guards |-> 0, retries |-> 0, outcome |-> "none",
     vreply |-> "none", greply |-> "none"]

\* What the verifier session gave: a JSON verdict PASS or FAIL, or nothing
\* usable (failure, timeout, empty or non-JSON output), which counts as PASS.
VerifierReplies == {"PASS", "FAIL", "unavailable"}

VerifierVerdict(reply) == IF reply = "FAIL" THEN "FAIL" ELSE "PASS"

\* The same for the guardian session.
GuardianReplies == {"PASS", "FLAG", "BLOCK", "unavailable"}

GuardianVerdict(reply) == IF reply = "unavailable" THEN "PASS" ELSE reply

\* while retries <= self.MAX_BUILDER_RETRIES
LoopContinues(retries) == retries <= MAX_BUILDER_RETRIES

RetriesNeverExhausted(retries) == FALSE

\* if retries > self.MAX_BUILDER_RETRIES: break
RetriesExhausted(retries) == retries > MAX_BUILDER_RETRIES

TasksUntouched(tk, t) == tk

\* UPDATE tasks SET status = 'failed', result = ? WHERE id = ?
FailedTasks(tk, t) ==
    IF tk[t].stored
    THEN [tk EXCEPT ![t].status = "failed", ![t].result = "error"]
    ELSE tk

\* fail_task on the task of the pipeline.
PipeFailTask(t) ==
    /\ tasks' = FailedTasks(tasks, t)
    /\ pmLast' = Call("fail_task", 0, 0, FALSE)
    /\ UNCHANGED <<projects, ideas, features, drv>>

\* The record of a turn: what was asked (op, utter, the number n in the
\* utterance or in the reply), the idea and the project the turn acted on,
\* the project it created, what the reply said, whether the handler raised,
\* and the same of the turn before.
NoTurn ==
    [op |-> "none", utter |-> "none", n |-> 0, idea |-> 0, project |-> 0,
     created |-> 0, said |-> "none", raised |-> FALSE,
     prev |-> [op |-> "none", n |-> 0, idea |-> 0, project |-> 0]]

NewTurn(op, utter, n, idea, project, created, said, raised) ==
    [op |-> op, utter |-> utter, n |-> n, idea |-> idea, project |-> project,
     created |-> created, said |-> said, raised |-> raised,
     prev |-> [op |-> turn.op, n |-> turn.n, idea |-> turn.idea,
               project |-> turn.project]]

\* get_status(...).failed_tasks
FailedTaskCount(tk, p) ==
    Cardinality({t \in TaskIds : tk[t].stored /\ tk[t].project_id = p
                                 /\ tk[t].status = "failed"})

\* _advance_project without a next task: the failed-tasks warning when
\* status.failed_tasks > 0, else "Project ... is complete!".
AdvanceNotice(tk, p) ==
    IF FailedTaskCount(tk, p) > 0 THEN "failed" ELSE "complete"

\* _handle_project with an in_progress active project: _advance_project
\* takes the next task; with one, the pipeline marks it in progress, asks
\* the researcher when the task needs research (r = 1; the answer only
\* feeds the builder's prompt) and goes on to the builder.
PipeAdvance(r) ==
    /\ pipe.pc = "idle"
    /\ GetActiveProject # 0
    /\ projects[GetActiveProject] = "in_progress"
    /\ \E t \in NextTask(tasks, GetActiveProject) :
          IF t = 0
          THEN /\ pmLast' = Call("get_status", GetActiveProject, 0, FALSE)
               /\ turn' = NewTurn("advance", "any", 0, 0, GetActiveProject, 0,
                                  AdvanceNotice(tasks, GetActiveProject), FALSE)
               /\ UNCHANGED <<tasks, features, pipe>>
          ELSE /\ tasks' = [tasks EXCEPT ![t].status = "in_progress"]
               /\ features' =
                     LET f == tasks[t].feature_id
                     IN  IF f # NoFeature /\ f \in FeatureIds
                            /\ features[f].status = "pending"
                         THEN [features EXCEPT ![f].status = "in_progress"]
                         ELSE features
               /\ pmLast' = Call("set_task_in_progress", 0, 0, FALSE)
               /\ pipe' = [PipeIdle EXCEPT !.pc = "build",
                                           !.project = GetActiveProject,
                                           !.task = t, !.research = r]
               /\ turn' = NewTurn("advance", "any", 0, 0, GetActiveProject, 0,
                                  "task", FALSE)
    /\ UNCHANGED <<projects, ideas, drv>>
    /\ UNCHANGED <<busVars, grdVars, dagVars, sessVars>>
    /\ UNCHANGED <<llmVars, kcVars, convVars, procVars>>

\* _delegate_to_builder: the output, or RuntimeError, which the outer
\* except turns into fail_task.
PipeBuild(ok) ==
    /\ pipe.pc = "build"
    /\ IF ok
       THEN /\ pipe' = [pipe EXCEPT !.pc = "verify", !.builds = @ + 1]
            /\ UNCHANGED pmVars
       ELSE /\ pipe' = [pipe EXCEPT !.pc = "returned", !.builds = @ + 1,
                                    !.outcome = "error"]
            /\ PipeFailTask(pipe.task)
    /\ UNCHANGED <<busVars, grdVars, dagVars, sessVars>>
    /\ UNCHANGED turn
    /\ UNCHANGED <<llmVars, kcVars, convVars, procVars>>

\* One pass of the verifier loop up to the revision: PASS leaves the loop
\* verified; FAIL counts a retry and either leaves the loop unverified
\* (fail_task, failure notice) or goes on to the revision.
PipeVerify(reply) ==
    /\ pipe.pc = "verify"
    /\ IF VerifierVerdict(reply) = "PASS"
       THEN /\ pipe' = [pipe EXCEPT !.pc = "guardian", !.verifies = @ + 1,
                                    !.vreply = reply]
            /\ UNCHANGED pmVars
       ELSE IF RetriesExhausted(pipe.retries + 1)
       THEN /\ pipe' = [pipe EXCEPT !.pc = "returned", !.verifies = @ + 1,
                                    !.retries = @ + 1, !.vreply = reply,
                                    !.outcome = "rejected"]
            /\ PipeFailTask(pipe.task)
       ELSE /\ pipe' = [pipe EXCEPT !.pc = "revise", !.verifies = @ + 1,
                                    !.retries = @ + 1, !.vreply = reply]
            /\ UNCHANGED pmVars
    /\ UNCHANGED <<busVars, grdVars, dagVars, sessVars>>
    /\ UNCHANGED turn
    /\ UNCHANGED <<llmVars, kcVars, convVars, procVars>>

\* _delegate_to_builder_revision and the test of the while loop after it.
PipeRevise(ok) ==
    /\ pipe.pc = "revise"
    /\ IF ok /\ LoopContinues(pipe.retries)
       THEN /\ pipe' = [pipe EXCEPT !.pc = "verify", !.builds = @ + 1]
            /\ UNCHANGED pmVars
       ELSE /\ pipe' = [pipe EXCEPT !.pc = "returned", !.builds = @ + 1,
                                    !.outcome = IF ok THEN "rejected"
                                                ELSE "error"]
            /\ PipeFailTask(pipe.task)
    /\ UNCHANGED <<busVars, grdVars, dagVars, sessVars>>
    /\ UNCHANGED turn
    /\ UNCHANGED <<llmVars, kcVars, convVars, procVars>>

\* _delegate_to_guardian: BLOCK fails the task and returns the notice; FLAG
\* only adds a line to the verbose log.
PipeGuardian(reply) ==
    /\ pipe.pc = "guardian"
    /\ IF GuardianVerdict(reply) = "BLOCK"
       THEN /\ pipe' = [pipe EXCEPT !.pc = "returned", !.guards = @ + 1,
                                    !.greply = reply,
                                    !.outcome = "blocked"]
            /\ PipeFailTask(pipe.task)
       ELSE /\ pipe' = [pipe EXCEPT !.pc = "coherence", !.guards = @ + 1,
                                    !.greply = reply]
            /\ UNCHANGED pmVars
    /\ UNCHANGED <<busVars, grdVars, dagVars, sessVars>>
    /\ UNCHANGED turn
    /\ UNCHANGED <<llmVars, kcVars, convVars, procVars>>

\* _coherence_check (whose answer is only logged), complete_task and the
\* auto-commit (whose failure is only logged).
PipeComplete ==
    /\ pipe.pc = "coherence"
    /\ CompleteTaskEffect(pipe.task)
    /\ pmLast' = Call("complete_task", pipe.task, 0, FALSE)
    /\ pipe' = [pipe EXCEPT !.pc = "returned", !.outcome = "completed"]
    /\ UNCHANGED <<ideas, drv>>
    /\ UNCHANGED <<busVars, grdVars, dagVars, sessVars>>
    /\ UNCHANGED turn
    /\ UNCHANGED <<llmVars, kcVars, convVars, procVars>>

\* The reply of the pipeline has gone to the user.
PipeReturn ==
    /\ pipe.pc = "returned"
    /\ pipe' = PipeIdle
    /\ UNCHANGED <<pmVars, busVars, grdVars, dagVars, sessVars>>
    /\ UNCHANGED turn
    /\ UNCHANGED <<llmVars, kcVars, convVars, procVars>>

(***************************************************************************)
(* The idea and project turns of the brain (_handle_idea, _handle_project, *)
(* _create_new_project).  A turn is taken while no pipeline is running.    *)
(***************************************************************************)
\* list_ideas: the backlog ideas ORDER BY created_at DESC (newest first).
ListIdeas(is) ==
    Descending({i \in 1..Len(is) : is[i] = "backlog"})

\* What task_decomposer.decompose returns: nfeat features and the tasks in
\* them (new: task id -> [feature, depends_on, order], feature counted
\* within the result).  _fallback_features: one feature with task_1 and
\* task_2, task_2 depending on task_1.
FallbackFeatures ==
    [nfeat |-> 1,
     new |-> [t \in {1, 2} |->
                 [feature |-> 1, depends_on |-> IF t = 2 THEN {1} ELSE {},
                  order |-> t]]]

\* The features built from the LLM's JSON: here one feature holding no task
\* or one task, with the id and the depends_on list the LLM wrote.
LlmFeatures ==
    {[nfeat |-> 1,
      new |-> [t \in ids |-> [feature |-> 1, depends_on |-> deps, order |-> 1]]] :
        ids \in {{}, {1}, {MaxTasks}}, deps \in {{}, {MaxTasks}}}

Decompositions == {FallbackFeatures} \cup LlmFeatures

\* The tasks of a decomposition as decompose_into_tasks gets them, their
\* feature_id being the id of the feature row just added.
TasksOf(d, base) ==
    [t \in DOMAIN d.new |->
        [feature_id |-> base + d.new[t].feature,
         depends_on |-> d.new[t].depends_on, order |-> d.new[t].order]]

\* The project status after "if all_tasks: decompose_into_tasks(...)".
StatusAfterDecompose(ps, p, d) ==
    IF DOMAIN d.new = {} \/ DOMAIN d.new \cap StoredTasks # {}
    THEN ps
    ELSE SetProjectStatus(ps, p, "in_progress")

\* _create_new_project from "features = await task_decomposer.decompose"
\* on, for project p of ps: add_features for every feature, then, if there
\* is any task, decompose_into_tasks (IntegrityError on a task id that is
\* already stored: nothing inserted, the status not updated, the handler
\* raises).
StoreDecomposition(ps, p, d, op, utter, n, idea) ==
    LET new == TasksOf(d, Len(features))
        clash == DOMAIN new \cap StoredTasks # {}
    IN  /\ Len(features) + d.nfeat <= MaxFeatures
        /\ features' = AppendN(features, [project_id |-> p, status |-> "pending"],
                               d.nfeat)
        /\ tasks' = IF DOMAIN new = {} \/ clash THEN tasks
                    ELSE InsertTasks(tasks, p, new)
        /\ projects' = StatusAfterDecompose(ps, p, d)
        /\ pmLast' = IF DOMAIN new = {}
                     THEN Call("add_features", 0, 0, FALSE)
                     ELSE Call("decompose_into_tasks", 0, 0, clash)
        /\ turn' = NewTurn(op, utter, n, idea, p, p,
                           IF DOMAIN new # {} /\ clash THEN "none" ELSE "plan",
                           DOMAIN new # {} /\ clash)

\* _handle_idea, the branch that adds: add_idea, then the reply "You now
\* have {count} idea(s) ... or 'promote idea {count}'", count being
\* len(list_ideas()).
TurnAddIdea ==
    /\ pipe.pc = "idle"
    /\ Len(ideas) < MaxIdeas
    /\ ideas' = Append(ideas, "backlog")
    /\ pmLast' = Call("add_idea", 0, 0, FALSE)
    /\ turn' = NewTurn("add_idea", "idea:", Len(ListIdeas(Append(ideas, "backlog"))),
                       Len(ideas) + 1, 0, 0, "added", FALSE)
    /\ UNCHANGED <<projects, features, tasks, drv, pipe>>
    /\ UNCHANGED <<busVars, grdVars, dagVars, sessVars>>
    /\ UNCHANGED <<llmVars, kcVars, convVars, procVars>>

\* _handle_project, "promote idea n": ideas[n - 1] of list_ideas() is
\* promoted (promote_idea marks the idea promoted, commits, and then calls
\* create_project, whose ValueError becomes the reply), and the project is
\* specified and decomposed by _create_new_project.
TurnPromote(n, d) ==
    /\ pipe.pc = "idle"
    /\ UNCHANGED <<drv, pipe>>
    /\ UNCHANGED <<busVars, grdVars, dagVars, sessVars>>
    /\ UNCHANGED <<llmVars, kcVars, convVars, procVars>>
    /\ LET backlog == ListIdeas(ideas)
       IN  IF n \notin 1..Len(backlog)
           THEN /\ turn' = NewTurn("promote", "promote idea", n, 0, 0, 0,
                                   "no_idea", FALSE)
                /\ pmLast' = Call("list_ideas", 0, 0, FALSE)
                /\ UNCHANGED <<projects, ideas, features, tasks>>
           ELSE /\ ideas' = [ideas EXCEPT ![backlog[n]] = "promoted"]
                /\ IF GetActiveProject # 0
                   THEN /\ turn' = NewTurn("promote", "promote idea", n,
                                           backlog[n], 0, 0, "refused", FALSE)
                        /\ pmLast' = Call("promote_idea", backlog[n], 0, TRUE)
                        /\ UNCHANGED <<projects, features, tasks>>
                   ELSE /\ Len(projects) < MaxProjects
                        /\ StoreDecomposition(Append(projects, "planning"),
                                              Len(projects) + 1, d, "promote",
                                              "promote idea", n, backlog[n])

\* _handle_project, "archive idea n".
TurnArchive(n) ==
    /\ pipe.pc = "idle"
    /\ LET backlog == ListIdeas(ideas)
       IN  IF n \notin 1..Len(backlog)
           THEN /\ turn' = NewTurn("archive", "archive idea", n, 0, 0, 0,
                                   "no_idea", FALSE)
                /\ pmLast' = Call("list_ideas", 0, 0, FALSE)
                /\ UNCHANGED ideas
           ELSE /\ ideas' = [ideas EXCEPT ![backlog[n]] = "archived"]
                /\ turn' = NewTurn("archive", "archive idea", n, backlog[n],
                                   0, 0, "archived", FALSE)
                /\ pmLast' = Call("archive_idea", 0, 0, FALSE)
    /\ UNCHANGED <<projects, features, tasks, drv, pipe>>
    /\ UNCHANGED <<busVars, grdVars, dagVars, sessVars>>
    /\ UNCHANGED <<llmVars, kcVars, convVars, procVars>>

\* _handle_project, "pause project" and "cancel project": both set the
\* active project paused.
TurnPause(utter) ==
    /\ pipe.pc = "idle"
    /\ utter \in {"pause project", "cancel project"}
    /\ IF GetActiveProject # 0
       THEN /\ projects' = SetProjectStatus(projects, GetActiveProject, "paused")
            /\ pmLast' = Call("update_project_status", 0, 0, FALSE)
            /\ turn' = NewTurn(IF utter = "pause project" THEN "pause"
                               ELSE "cancel", utter, 0, 0, GetActiveProject, 0,
                               IF utter = "pause project" THEN "paused"
                               ELSE "cancelled", FALSE)
       ELSE /\ pmLast' = Call("get_active_project", 0, 0, FALSE)
            /\ turn' = NewTurn(IF utter = "pause project" THEN "pause"
                               ELSE "cancel", utter, 0, 0, 0, 0, "no_active",
                               FALSE)
            /\ UNCHANGED projects
    /\ UNCHANGED <<ideas, features, tasks, drv, pipe>>
    /\ UNCHANGED <<busVars, grdVars, dagVars, sessVars>>
    /\ UNCHANGED <<llmVars, kcVars, convVars, procVars>>

\* _handle_project, any other utterance ("resume project" matches none of
\* the branches above) while get_active_project() returns no in_progress
\* project: _create_new_project, whose create_project raises ValueError
\* when a project is active (one left in planning).
OtherUtterances == {"resume project", "new project"}

TurnCreate(utter, d) ==
    /\ pipe.pc = "idle"
    /\ utter \in OtherUtterances
    /\ ~(GetActiveProject # 0 /\ projects[GetActiveProject] = "in_progress")
    /\ UNCHANGED <<ideas, drv, pipe>>
    /\ UNCHANGED <<busVars, grdVars, dagVars, sessVars>>
    /\ UNCHANGED <<llmVars, kcVars, convVars, procVars>>
    /\ IF GetActiveProject # 0
       THEN /\ turn' = NewTurn("create", utter, 0, 0, 0, 0, "none", TRUE)
            /\ pmLast' = Call("create_project", 0, 0, TRUE)
            /\ UNCHANGED <<projects, features, tasks>>
       ELSE /\ Len(projects) < MaxProjects
            /\ StoreDecomposition(Append(projects, "planning"),
                                  Len(projects) + 1, d, "create", utter, 0, 0)

PipeInit == pipe = PipeIdle /\ turn = NoTurn

(***************************************************************************)
(* The knowledge_cache table (memory/schemas.py), the memory gate of the   *)
(* brain (_gate_memory) and run_graduation (memory/graduation.py).         *)
(* Confidences are in thousandths (800 is 0.8).  A row holds its           *)
(* confidence, access_count, its age in days (now - verified_at), the days *)
(* since last_accessed_at (NoAccess for NULL), metadata.contradicted and   *)
(* metadata.needs_reverify; gated is the confidence the memory gate stored *)
(* the row with (NotGated for a row that did not come through the gate).   *)
(* kc.pre holds the rows as they were before the last graduation run,      *)
(* kc.streak counts the graduation runs made since the last other          *)
(* operation.                                                              *)
(***************************************************************************)
MaxFacts     == 2   \* rows of knowledge_cache
MaxGateFacts == 2   \* entries of one facts_for_cache list

NoAccess == -1
NotGated == -1

KcEmpty == [rows |-> <<>>, pre |-> <<>>, last |-> "init", streak |-> 0]

\* knowledge_cache.store_fact: one new row with the given confidence,
\* verified now, never accessed.
StoreFact(rows, confidence) ==
    Append(rows, [confidence |-> confidence, gated |-> confidence,
                  access_count |-> 0, age |-> 0, last_accessed |-> NoAccess,
                  contradicted |-> FALSE, needs_reverify |-> FALSE])

\* for fact_entry in decision.get("facts_for_cache", []): entries without a
\* fact text are skipped, every other entry is stored with its confidence.
RECURSIVE StoreFacts(_, _, _)
StoreFacts(rows, facts, j) ==
    IF j > Len(facts) THEN rows
    ELSE StoreFacts(IF facts[j].fact = "" THEN rows
                    ELSE StoreFact(rows, facts[j].confidence),
                    facts, j + 1)

GateConfidences == {0, 500, 744, 750, 800}

GateFacts ==
    UNION {[1..n -> [fact : {"", "f"}, confidence : GateConfidences]] :
              n \in 0..MaxGateFacts}

\* _gate_memory: out is how generate_json ended ("error": the error record,
\* whose content is not a dict, so that decision.get raises), mem how the
\* ingest of the memories went ("raise": an exception, which skips the
\* facts).  Every exception is caught and logged.
GateMemory(out, mem, facts) ==
    /\ Len(StoreFacts(kc.rows, facts, 1)) <= MaxFacts
    /\ kc' = [rows |-> IF out = "content" /\ mem # "raise"
                       THEN StoreFacts(kc.rows, facts, 1)
                       ELSE kc.rows,
              pre |-> <<>>, last |-> "gate", streak |-> 0]
    /\ UNCHANGED <<pmVars, busVars, grdVars, dagVars, sessVars>>
    /\ UNCHANGED memdb
    /\ UNCHANGED <<llmVars, pipeVars, convVars, procVars>>

\* A row written straight into the table (tests/test_graduation.py
\* _insert_fact): any confidence, access count, age and last access.
InsertFact(confidence, access, age, last, contradicted) ==
    /\ Len(kc.rows) < MaxFacts
    /\ kc' = [rows |-> Append(kc.rows,
                         [confidence |-> confidence, gated |-> NotGated,
                          access_count |-> access, age |-> age,
                          last_accessed |-> last,
                          contradicted |-> contradicted,
                          needs_reverify |-> FALSE]),
              pre |-> <<>>, last |-> "insert", streak |-> 0]
    /\ UNCHANGED <<pmVars, busVars, grdVars, dagVars, sessVars>>
    /\ UNCHANGED memdb
    /\ UNCHANGED <<llmVars, pipeVars, convVars, procVars>>

\* store_fact called by a worker: the row did not come through the gate.
WorkerStoreFact(rows, confidence) ==
    LET r == StoreFact(rows, confidence)
    IN  [r EXCEPT ![Len(r)].gated = NotGated]

\* VerifierAgent._store_fact for every entry of new_facts_for_cache: an
\* entry without a fact text is skipped.
RECURSIVE VerifierStore(_, _, _)
VerifierStore(rows, facts, j) ==
    IF j > Len(facts) THEN rows
    ELSE VerifierStore(IF facts[j].fact = "" THEN rows
                       ELSE WorkerStoreFact(rows, facts[j].confidence),
                       facts, j + 1)

\* ResearcherAgent._cache_fact for every entry of facts_for_cache: an entry
\* without a fact text or with a confidence under 0.75 is skipped.
RECURSIVE ResearcherCache(_, _, _)
ResearcherCache(rows, facts, j) ==
    IF j > Len(facts) THEN rows
    ELSE ResearcherCache(IF facts[j].fact = "" \/ facts[j].confidence < 750
                         THEN rows
                         ELSE WorkerStoreFact(rows, facts[j].confidence),
                         facts, j + 1)

\* VerifierAgent._handle_verify, phase 4: the facts the report names go
\* into the knowledge cache when the agent was given a memory engine.
HandleVerify(has_memory, facts) ==
    /\ Len(VerifierStore(kc.rows, facts, 1)) <= MaxFacts
    /\ kc' = IF has_memory /\ VerifierStore(kc.rows, facts, 1) # kc.rows
             THEN [rows |-> VerifierStore(kc.rows, facts, 1),
                   pre |-> <<>>, last |-> "verifier", streak |-> 0]
             ELSE kc
    /\ UNCHANGED <<pmVars, busVars, grdVars, dagVars, sessVars>>
    /\ UNCHANGED memdb
    /\ UNCHANGED <<llmVars, pipeVars, convVars, procVars>>

\* ResearcherAgent._handle_research, step 5.
HandleResearch(has_memory, facts) ==
    /\ Len(ResearcherCache(kc.rows, facts, 1)) <= MaxFacts
    /\ kc' = IF has_memory /\ ResearcherCache(kc.rows, facts, 1) # kc.rows
             THEN [rows |-> ResearcherCache(kc.rows, facts, 1),
                   pre |-> <<>>, last |-> "researcher", streak |-> 0]
             ELSE kc
    /\ UNCHANGED <<pmVars, busVars, grdVars, dagVars, sessVars>>
    /\ UNCHANGED memdb
    /\ UNCHANGED <<llmVars, pipeVars, convVars, procVars>>

\* x or d: Python takes d when x is 0 (or NULL).
OrDefault(x, d) == IF x = 0 THEN d ELSE x

\* round(x, 2) on thousandths; no confidence of the model ends in 5.
Round2(m) ==
    IF m % 10 < 5 THEN m - (m % 10) ELSE m - (m % 10) + 10

\* since_access.days: 999 when last_accessed_at is missing.
SinceAccess(row) ==
    IF row.last_accessed = NoAccess THEN 999 ELSE row.last_accessed

\* The body of the loop of run_graduation for one row.
GraduateRow(row) ==
    LET confidence == OrDefault(row.confidence, 800)
        clean      == ~row.contradicted
        rule ==
            IF row.access_count >= 10 /\ row.age > 90 /\ clean
            THEN "promoted_permanent"
            ELSE IF row.access_count >= 3 /\ row.age > 30 /\ clean
                    /\ confidence < 950
            THEN "promoted_established"
            ELSE IF SinceAccess(row) > 180 /\ confidence < 1000
            THEN "decayed"
            ELSE "none"
        new_confidence ==
            IF rule = "promoted_permanent" THEN 1000
            ELSE IF rule = "promoted_established" THEN 950
            ELSE IF rule = "decayed" THEN Round2(Max2(0, confidence - 100))
            ELSE confidence
    IN  IF confidence >= 1000 THEN row
        ELSE IF new_confidence # confidence \/ rule # "none"
                \/ new_confidence < 500
        THEN [row EXCEPT !.confidence = new_confidence,
                         !.needs_reverify = @ \/ new_confidence < 500]
        ELSE row

\* run_graduation: every row of the table, one after the other.
RunGraduation ==
    /\ kc.rows # <<>>
    /\ kc.streak < 2
    /\ kc' = [rows |-> [i \in 1..Len(kc.rows) |-> GraduateRow(kc.rows[i])],
              pre |-> kc.rows, last |-> "graduation",
              streak |-> kc.streak + 1]
    /\ UNCHANGED <<pmVars, busVars, grdVars, dagVars, sessVars>>
    /\ UNCHANGED memdb
    /\ UNCHANGED <<llmVars, pipeVars, convVars, procVars>>

KcInit == kc = KcEmpty

(***************************************************************************)
(* The memories and memory_links tables (memory/schemas.py) and the        *)
(* consolidation job (memory/consolidation.py).  A row's id is its         *)
(* position in memdb.rows; a deleted row keeps its position with present   *)
(* FALSE.  old: created more than 7 days ago.  An embedding is NULL or a   *)
(* unit vector, given by its direction in steps of 40 degrees; importance  *)
(* and similarity are in thousandths.  from: the consolidated_from list of *)
(* the metadata.  memdb.run holds the arguments of the last run and the    *)
(* clusters of two or more it found, memdb.pre the rows before that run.   *)
(***************************************************************************)
MaxMemories == 3   \* short-term memories stored

NullEmb == -1
Directions == {0, 1, 2}
Importances == {200, 500}
SIMILARITY_THRESHOLD == 700
PRUNE_THRESHOLD == 300

NoRun == [op |-> "none", tier |-> "full", dry_run |-> FALSE, clusters |-> <<>>]

MemEmpty == [rows |-> <<>>, links |-> {}, pre |-> <<>>, run |-> NoRun]

\* cosine_similarity of two unit vectors 40 * |a - b| degrees apart.
CosineSimilarity(a, b) ==
    LET diff == IF a >= b THEN a - b ELSE b - a
    IN  IF diff = 0 THEN 1000 ELSE IF diff = 1 THEN 766 ELSE 174

\* find_old_memories: the short-term rows created before the cutoff.
FindOldMemories(rows) ==
    Ascending({i \in 1..Len(rows) :
                  rows[i].present /\ rows[i].tier = "short_term" /\ rows[i].old})

\* cluster_memories: every unused row with an embedding seeds a cluster and
\* takes every later unused row with an embedding whose similarity to the
\* seed reaches the threshold.
RECURSIVE ClusterFrom(_, _, _, _, _)
ClusterFrom(rows, olds, i, used, acc) ==
    IF i > Len(olds) THEN acc
    ELSE IF i \in used \/ rows[olds[i]].embedding = NullEmb
    THEN ClusterFrom(rows, olds, i + 1, used, acc)
    ELSE LET near == {j \in (i + 1)..Len(olds) :
                         /\ j \notin used
                         /\ rows[olds[j]].embedding # NullEmb
                         /\ CosineSimilarity(rows[olds[i]].embedding,
                                             rows[olds[j]].embedding)
                               >= SIMILARITY_THRESHOLD}
         IN  ClusterFrom(rows, olds, i + 1, used \cup {i} \cup near,
                         Append(acc, {olds[j] : j \in {i} \cup near}))

ClusterMemories(rows, olds) == ClusterFrom(rows, olds, 1, {}, <<>>)

\* max(cluster, key=importance): the first member of greatest importance.
BestOf(rows, c) ==
    CHOOSE m \in c :
        /\ \A x \in c : rows[x].importance <= rows[m].importance
        /\ \A x \in c : rows[x].importance = rows[m].importance => m <= x

\* DELETE FROM memories WHERE id = ? for every member of the cluster.
KeepMembers(rows, c) == rows

DeleteMembers(rows, c) ==
    [i \in 1..Len(rows) |->
        IF i \in c THEN [rows[i] EXCEPT !.present = FALSE] ELSE rows[i]]

\* The loop body of run_consolidation for one cluster of two or more: the
\* long-term row, a consolidated_into link from every member, the deletes.
MergeCluster(db, c) ==
    LET best == db.rows[BestOf(db.rows, c)]
        summary == [tier |-> "long_term", old |-> FALSE,
                    embedding |-> best.embedding,
                    importance |-> best.importance, present |-> TRUE,
                    from |-> c]
    IN  [db EXCEPT !.rows = DeleteMembers(Append(db.rows, summary), c),
                   !.links = @ \cup {<<m, Len(db.rows) + 1>> : m \in c}]

RECURSIVE MergeAll(_, _, _)
MergeAll(db, clusters, k) ==
    IF k > Len(clusters) THEN db
    ELSE MergeAll(IF Cardinality(clusters[k]) < 2 THEN db
                  ELSE MergeCluster(db, clusters[k]),
                  clusters, k + 1)

\* prune_low_importance: DELETE the short-term rows below the threshold.
PruneLowImportance(rows) ==
    [i \in 1..Len(rows) |->
        IF rows[i].tier = "short_term" /\ rows[i].importance < PRUNE_THRESHOLD
        THEN [rows[i] EXCEPT !.present = FALSE]
        ELSE rows[i]]

\* A short-term memory is stored (the test helper insert_old_memory stores
\* one with a created_at in the past).
MemInsert(old, embedding, importance) ==
    /\ Cardinality({i \in 1..Len(memdb.rows) : memdb.rows[i].from = {}})
          < MaxMemories
    /\ memdb' = [memdb EXCEPT !.rows =
                    Append(@, [tier |-> "short_term", old |-> old,
                               embedding |-> embedding,
                               importance |-> importance, present |-> TRUE,
                               from |-> {}]),
                              !.run = NoRun, !.pre = <<>>]
    /\ UNCHANGED kc
    /\ UNCHANGED <<pmVars, busVars, grdVars, dagVars, sessVars>>
    /\ UNCHANGED <<llmVars, pipeVars, convVars, procVars>>

\* run_consolidation(db_path, tier, dry_run).
RunConsolidation(tier, dry_run) ==
    LET clusters == ClusterMemories(memdb.rows, FindOldMemories(memdb.rows))
        merged == IF dry_run THEN memdb ELSE MergeAll(memdb, clusters, 1)
    IN  /\ memdb' = [rows |-> IF tier # "full" /\ ~dry_run
                              THEN PruneLowImportance(merged.rows)
                              ELSE merged.rows,
                     links |-> merged.links,
                     pre |-> memdb.rows,
                     run |-> [op |-> "run", tier |-> tier, dry_run |-> dry_run,
                              clusters |-> SelectSeq(clusters,
                                  LAMBDA c : Cardinality(c) >= 2)]]
        /\ UNCHANGED kc
        /\ UNCHANGED <<pmVars, busVars, grdVars, dagVars, sessVars>>
        /\ UNCHANGED <<llmVars, pipeVars, convVars, procVars>>

MemInit == memdb = MemEmpty

(***************************************************************************)
(* The conversation history of the brain (_handle_user_message,            *)
(* _handle_user_message_inner, _trim_history).  An entry is its role and   *)
(* the number n it was appended as (1 for the first entry ever appended).  *)
(***************************************************************************)
MAX_CONVERSATION_HISTORY == 50

MaxTurns  == 27   \* user messages handled
MaxRaises == 1    \* turns whose routing raises

ConvEmpty == [pc |-> "idle", history |-> <<>>, appended |-> 0, turns |-> 0,
              raised |-> 0]

\* _trim_history: the first 2 entries and the last MAX - 2.
TrimHistory(h) ==
    IF Len(h) > MAX_CONVERSATION_HISTORY
    THEN SubSeq(h, 1, 2)
            \o SubSeq(h, Len(h) - (MAX_CONVERSATION_HISTORY - 2) + 1, Len(h))
    ELSE h

\* _handle_user_message_inner up to the classification: the user message
\* is appended and the history trimmed.
UserMessage ==
    /\ conv.pc = "idle"
    /\ conv.turns < MaxTurns
    /\ conv' = [conv EXCEPT
           !.pc = "routing",
           !.history = TrimHistory(Append(@, [role |-> "user",
                                             n |-> conv.appended + 1])),
           !.appended = @ + 1, !.turns = @ + 1]
    /\ UNCHANGED <<pmVars, busVars, grdVars, dagVars, sessVars>>
    /\ UNCHANGED <<llmVars, pipeVars, kcVars, procVars>>

\* The route has given its response: it is appended to the history, the
\* memory gate runs (its failures are logged) and the response is returned.
TurnReply ==
    /\ conv.pc = "routing"
    /\ conv' = [conv EXCEPT
           !.pc = "idle",
           !.history = Append(@, [role |-> "assistant",
                                  n |-> conv.appended + 1]),
           !.appended = @ + 1]
    /\ UNCHANGED <<pmVars, busVars, grdVars, dagVars, sessVars>>
    /\ UNCHANGED <<llmVars, pipeVars, kcVars, procVars>>

\* The classification or the route raised: _handle_user_message returns
\* the apology and nothing is appended.
TurnRaise ==
    /\ conv.pc = "routing"
    /\ conv.raised < MaxRaises
    /\ conv' = [conv EXCEPT !.pc = "idle", !.raised = @ + 1]
    /\ UNCHANGED <<pmVars, busVars, grdVars, dagVars, sessVars>>
    /\ UNCHANGED <<llmVars, pipeVars, kcVars, procVars>>

ConvInit == conv = ConvEmpty

(***************************************************************************)
(* AgentSessionManager.delegate and _run_session (agents/                  *)
(* session_manager.py) with the child process of the session.  proc.child  *)
(* is the state of the process spawned by the delegation in progress       *)
(* ("none", "running", or "reaped" once communicate has collected its exit *)
(* status), proc.file tells whether the temporary system-prompt file       *)
(* exists, proc.result is the DelegationResult ("success", or the kind of  *)
(* failure), proc.left counts the children of earlier delegations that     *)
(* are still running.                                                      *)
(***************************************************************************)
MaxLeft == 2   \* children still running after their delegation returned

SessionAgents == {"builder", "researcher", "verifier", "guardian"}

ProcIdle == [pc |-> "idle", agent |-> "none", child |-> "none",
             file |-> FALSE, result |-> "none", left |-> 0]

\* delegate up to create_subprocess_exec: the system prompt (never empty)
\* is written to a temporary file.
ProcDelegate(agent) ==
    /\ proc.pc = "idle"
    /\ proc' = [proc EXCEPT !.pc = "spawning", !.agent = agent,
                            !.child = "none", !.file = TRUE,
                            !.result = "none"]
    /\ UNCHANGED <<pmVars, busVars, grdVars, dagVars, sessVars>>
    /\ UNCHANGED <<llmVars, pipeVars, kcVars, convVars>>

\* create_subprocess_exec: the child runs, or the call raises (no openclaw
\* executable); the finally clause unlinks the file and delegate returns a
\* failure result.
ProcSpawn(ok) ==
    /\ proc.pc = "spawning"
    /\ proc' = IF ok
               THEN [proc EXCEPT !.pc = "waiting", !.child = "running"]
               ELSE [proc EXCEPT !.pc = "returned", !.file = FALSE,
                                 !.result = "error"]
    /\ UNCHANGED <<pmVars, busVars, grdVars, dagVars, sessVars>>
    /\ UNCHANGED <<llmVars, pipeVars, kcVars, convVars>>

\* The child exits within the timeout: communicate returns its output and
\* exit status; a non-zero status raises RuntimeError.
ProcChildExit(code) ==
    /\ proc.pc = "waiting"
    /\ proc.child = "running"
    /\ proc' = [proc EXCEPT !.pc = "returned", !.child = "reaped",
                            !.file = FALSE,
                            !.result = IF code = 0 THEN "success"
                                       ELSE "failed"]
    /\ UNCHANGED <<pmVars, busVars, grdVars, dagVars, sessVars>>
    /\ UNCHANGED <<llmVars, pipeVars, kcVars, convVars>>

\* wait_for gives up: communicate is cancelled, TimeoutError leaves
\* _run_session through the finally clause (which only unlinks the file)
\* and delegate returns the timeout failure.  Nothing signals the child.
ProcTimeout ==
    /\ proc.pc = "waiting"
    /\ proc.child = "running"
    /\ proc' = [proc EXCEPT !.pc = "returned", !.file = FALSE,
                            !.result = "timeout"]
    /\ UNCHANGED <<pmVars, busVars, grdVars, dagVars, sessVars>>
    /\ UNCHANGED <<llmVars, pipeVars, kcVars, convVars>>

\* The caller has the DelegationResult; a child that still runs is left
\* to itself.
ProcTake ==
    /\ proc.pc = "returned"
    /\ proc.child = "running" => proc.left < MaxLeft
    /\ proc' = [proc EXCEPT !.pc = "idle", !.child = "none",
                            !.left = IF proc.child = "running" THEN @ + 1
                                     ELSE @]
    /\ UNCHANGED <<pmVars, busVars, grdVars, dagVars, sessVars>>
    /\ UNCHANGED <<llmVars, pipeVars, kcVars, convVars>>

\* A child left running ends by itself.
LeftChildExit ==
    /\ proc.left > 0
    /\ proc' = [proc EXCEPT !.left = @ - 1]
    /\ UNCHANGED <<pmVars, busVars, grdVars, dagVars, sessVars>>
    /\ UNCHANGED <<llmVars, pipeVars, kcVars, convVars>>

ProcInit == proc = ProcIdle

vars == <<projects, ideas, features, tasks, pmLast, drv, queue, busLast, hist, rx,
         grd, dag, sess, llmc, pipe, turn, kc, memdb, conv, proc>>

Init ==
    /\ PMInit /\ BusInit /\ GrdInit /\ DagInit /\ SessInit
    /\ LlmInit /\ PipeInit /\ KcInit /\ MemInit /\ ConvInit /\ ProcInit

(***************************************************************************)
(* Projects and ideas: every operation that creates a project or changes   *)
(* a project's status.  Tasks are inserted one at a time, without a        *)
(* feature or dependencies.                                                *)
(***************************************************************************)
SimpleTask == [feature_id |-> NoFeature, depends_on |-> {}, order |-> 1]

Next ==
    \/ AddIdea
    \/ \E i \in 1..MaxIdeas : PromoteIdea(i)
    \/ \E i \in 1..MaxIdeas : ArchiveIdea(i)
    \/ CreateProject
    \/ \E p \in ProjectIds, s \in ProjectStatuses : UpdateProjectStatus(p, s)
    \/ \E p \in ProjectIds, t \in 1..MaxBatch :
          DecomposeIntoTasks(p, [x \in {t} |-> SimpleTask])
    \/ \E t \in TaskIds : CompleteTask(t)

Spec == Init /\ [][Next]_vars

(***************************************************************************)
(* Task selection: tasks with dependency lists and orders, as the          *)
(* decomposer passes them on from the LLM output (any ids, any orders).    *)
(***************************************************************************)
TaskInputs(feats) ==
    [feature_id : feats, depends_on : SUBSET TaskIds, order : Orders]

NextDeps ==
    \/ CreateProject
    \/ \E p \in ProjectIds, ids \in (SUBSET (1..MaxBatch)) \ {{}} :
          \* a batch that repeats a stored id raises whatever else it holds
          IF ids \cap StoredTasks # {}
          THEN DecomposeIntoTasks(p, [x \in ids |-> SimpleTask])
          ELSE \E new \in [ids -> TaskInputs({NoFeature})] : DecomposeIntoTasks(p, new)
    \/ \E p \in ProjectIds : GetNextTask(p)
    \/ \E t \in TaskIds : CompleteTask(t)
    \/ \E t \in TaskIds : FailTask(t)

SpecDeps == Init /\ [][NextDeps]_vars

(***************************************************************************)
(* Features: tasks that belong to features of their project; the brain     *)
(* adds the features first and marks a task in_progress before it runs.    *)
(***************************************************************************)
FeaturesOf(p) == {f \in FeatureIds : features[f].project_id = p}

FeatureTask(f) == [feature_id |-> f, depends_on |-> {}, order |-> 1]

NextFeat ==
    \/ CreateProject
    \/ \E p \in ProjectIds, n \in 1..MaxFeatures : AddFeatures(p, n)
    \/ \E p \in ProjectIds, ids \in (SUBSET (1..MaxBatch)) \ {{}} :
          \E fo \in [ids -> FeaturesOf(p) \cup {NoFeature}] :
             DecomposeIntoTasks(p, [x \in ids |-> FeatureTask(fo[x])])
    \/ \E t \in TaskIds : SetTaskInProgress(t)
    \/ \E t \in TaskIds : CompleteTask(t)

SpecFeat == Init /\ [][NextFeat]_vars

(***************************************************************************)
(* A caller that decomposes a planned project once, with a task set whose  *)
(* dependencies name tasks of the set and contain no cycle, and then       *)
(* repeats: get_next_task, complete_task on the task returned, until       *)
(* get_next_task returns None (tests/test_project_manager.py               *)
(* test_decompose_and_complete_tasks; Brain._advance_project).             *)
(***************************************************************************)
AcyclicDeps(ids) ==
    {deps \in [ids -> SUBSET ids] :
        \E rank \in [ids -> 1..Cardinality(ids)] :
            \A t \in ids : \A d \in deps[t] : rank[d] < rank[t]}

ClosedBatches(ids) ==
    {[t \in ids |-> [feature_id |-> NoFeature, depends_on |-> deps[t],
                     order |-> ord[t]]] :
        deps \in AcyclicDeps(ids), ord \in [ids -> Orders]}

DriveDecompose(p, new) ==
    /\ drv.pc = "idle"
    /\ p \in ProjectIds /\ projects[p] = "planning"
    /\ DecomposeEffect(p, new)
    /\ drv' = [pc |-> "next", project |-> p, cur |-> 0, visit |-> <<>>]
    /\ UNCHANGED <<ideas, features>>
    /\ UNCHANGED nonPM

DriveGetNext ==
    /\ drv.pc = "next"
    /\ \E t \in NextTask(tasks, drv.project) :
          /\ pmLast' = Call("get_next_task", drv.project, t, FALSE)
          /\ drv' = IF t = 0
                    THEN [drv EXCEPT !.pc = "done"]
                    ELSE [drv EXCEPT !.pc = "complete", !.cur = t,
                                     !.visit = Append(drv.visit, t)]
    /\ UNCHANGED <<projects, ideas, features, tasks>>
    /\ UNCHANGED nonPM

DriveComplete ==
    /\ drv.pc = "complete"
    /\ CompleteTaskEffect(drv.cur)
    /\ pmLast' = Call("complete_task", drv.cur, 0, FALSE)
    /\ drv' = [drv EXCEPT !.pc = "next"]
    /\ UNCHANGED ideas
    /\ UNCHANGED nonPM

NextDrive ==
    \/ CreateProject
    \/ /\ drv.pc = "idle"
       /\ \E p \in ProjectIds, ids \in (SUBSET TaskIds) \ {{}} :
             \E new \in ClosedBatches(ids) : DriveDecompose(p, new)
    \/ DriveGetNext
    \/ DriveComplete

SpecDrive == Init /\ [][NextDrive]_vars

(***************************************************************************)
(* The bus used through one connection: send and receive only.             *)
(***************************************************************************)
NextBusSR ==
    \/ \E k \in BusTasks, r \in BusRoles : Send(k, r)
    \/ \E r \in BusRoles, n \in Limits : Receive(r, n)

SpecBusSR == Init /\ [][NextBusSR]_vars

(***************************************************************************)
(* The bus used through one connection: every operation.  update_status    *)
(* accepts any TaskStatus; the calls drawn here are completed with a       *)
(* result, blocked or failed with an error (the calls the agents make),    *)
(* and pending with neither, which the signature equally allows.           *)
(***************************************************************************)
StatusCalls ==
    {<<"completed", "result", "null">>, <<"blocked", "null", "error">>,
     <<"failed", "null", "error">>, <<"pending", "null", "null">>}

NextBus ==
    \/ \E k \in BusTasks, r \in BusRoles : Send(k, r)
    \/ \E r \in BusRoles, n \in Limits : Receive(r, n)
    \/ \E k \in BusTasks, u \in StatusCalls : UpdateStatus(k, u[1], u[2], u[3])

SpecBus == Init /\ [][NextBus]_vars

(***************************************************************************)
(* Two receivers on separate connections, and a sender.                    *)
(***************************************************************************)
NextBusConc ==
    \/ \E k \in BusTasks, r \in BusRoles : Send(k, r)
    \/ \E c \in Connections, r \in BusRoles, n \in Limits : RecvSelect(c, r, n)
    \/ \E c \in Connections : RecvMark(c)

SpecBusConc == Init /\ [][NextBusConc]_vars

(***************************************************************************)
(* The bus with the guardian running: agents send, a worker receives and   *)
(* reports its outcome with update_status (completed with a result, failed *)
(* with an error), and the guardian's intercept and direct loops run.      *)
(* No message reports token usage.                                         *)
(***************************************************************************)
WorkerCalls ==
    {<<"completed", "result", "null">>, <<"completed", "secret", "null">>,
     <<"completed", "risky", "null">>, <<"failed", "null", "error">>}

NextGuard ==
    \/ \E k \in BusTasks, f \in Senders, r \in BusRoles : AgentSend(k, f, r, 0)
    \/ Receive("builder", MaxLimit)
    \/ \E k \in BusTasks, u \in WorkerCalls : UpdateStatus(k, u[1], u[2], u[3])
    \/ \E l \in LlmFindings : InterceptScan(l)
    \/ DirectReceive
    \/ DirectReply

SpecGuard == Init /\ [][NextGuard]_vars

\* The intercept loop polls every second for as long as the guardian runs.
SpecGuardLive ==
    Init /\ [][NextGuard]_vars /\ WF_vars(\E l \in LlmFindings : InterceptScan(l))

(***************************************************************************)
(* The token budget: messages that report usage are sent, a worker         *)
(* completes them, the intercept loop scans, and the day may roll over.    *)
(***************************************************************************)
NextBudget ==
    \/ \E k \in BusTasks, f \in Senders \ {"guardian"}, n \in 0..MaxTokens :
          AgentSend(k, f, "builder", n)
    \/ \E k \in BusTasks : UpdateStatus(k, "completed", "result", "null")
    \/ \E l \in LlmFindings : InterceptScan(l)
    \/ CostReset

SpecBudget == Init /\ [][NextBudget]_vars

(***************************************************************************)
(* Layer construction on any subtask list the LLM may emit: depends_on     *)
(* entries from -1 to n (both ends out of range), the subtask's own index  *)
(* and cycles included.                                                    *)
(***************************************************************************)
DepLists(vals) ==
    UNION {{sq \in [1..m -> vals] : \A i, j \in 1..m : i # j => sq[i] # sq[j]} :
              m \in 0..MaxDeps}

SubtaskLists(kinds, lo, hi) ==
    UNION {[1..n -> [agent : {kd[1] : kd \in kinds},
                     action : {kd[2] : kd \in kinds},
                     depends_on : DepLists((lo)..(n + hi))]] :
              n \in 1..MaxSubtasks}

NextLayers ==
    \/ \E st \in SubtaskLists({<<"builder", "implement">>}, -1, 0) : DagSubmit(st)
    \/ BuildExecutionLayers

SpecLayers == Init /\ [][NextLayers]_vars

(***************************************************************************)
(* A complex request from decomposition to synthesis: in-range depends_on  *)
(* entries listed in increasing order (cycles included), two actions of    *)
(* one agent, so that two subtasks may share their "<agent>_<action>" key; *)
(* a delegation ends with the session's output or with a timeout, the      *)
(* synthesis call of generate in any way it can.                           *)
(***************************************************************************)
Increasing(sq) == \A i, j \in 1..Len(sq) : i < j => sq[i] < sq[j]

DagInputs ==
    {st \in SubtaskLists({<<"builder", "implement">>, <<"builder", "test">>},
                         0, -1) :
        \A i \in 1..Len(st) : Increasing(st[i].depends_on)}

NextDag ==
    \/ \E st \in DagInputs : DagSubmit(st)
    \/ BuildExecutionLayers
    \/ DagDispatch
    \/ \E i \in 1..MaxSubtasks, f \in {"ok", "timeout"} : ChildFinish(i, f)
    \/ GatherResults
    \/ DagCollect
    \/ \E out \in GenerateResults : DagSynthesize(out)
    \/ DagFinish

SpecDag == Init /\ [][NextDag]_vars

(***************************************************************************)
(* delegate_parallel on any list of up to MaxParallel tasks, each          *)
(* delegation ending in any of the four ways, in any order.                *)
(***************************************************************************)
TaskLists == UNION {[1..n -> AgentNames] : n \in 0..MaxParallel}

NextSess ==
    \/ \E ts \in TaskLists : DelegateParallel(ts)
    \/ \E i \in 1..MaxParallel, f \in Fates : ChildFinish(i, f)
    \/ GatherResults
    \/ SessReturn

SpecSess == Init /\ [][NextSess]_vars

(***************************************************************************)
(* One generate call after another, every call of the provider function    *)
(* ending in any of the ways it can.                                       *)
(***************************************************************************)
NextLlm ==
    \/ LlmGenerate
    \/ \E o \in AttemptOutcomes : LlmAttempt(o)
    \/ LlmReturn

SpecLlm == Init /\ [][NextLlm]_vars

(***************************************************************************)
(* Projects worked through the task pipeline: a project is created,        *)
(* decomposed into a batch of tasks whose dependencies lie inside the      *)
(* batch, and advanced one task at a time, every delegation of a pipeline  *)
(* ending in any of the ways it can.                                       *)
(***************************************************************************)
NextPipe ==
    \/ /\ pipe.pc = "idle"
       /\ CreateProject
    \/ /\ pipe.pc = "idle"
       /\ \E p \in ProjectIds, ids \in (SUBSET TaskIds) \ {{}} :
             /\ projects[p] = "planning"
             /\ \E new \in ClosedBatches(ids) : DecomposeIntoTasks(p, new)
    \/ \E r \in {0, 1} : PipeAdvance(r)
    \/ \E ok \in BOOLEAN : PipeBuild(ok)
    \/ \E reply \in VerifierReplies : PipeVerify(reply)
    \/ \E ok \in BOOLEAN : PipeRevise(ok)
    \/ \E reply \in GuardianReplies : PipeGuardian(reply)
    \/ PipeComplete
    \/ PipeReturn

SpecPipe == Init /\ [][NextPipe]_vars

(***************************************************************************)
(* The brain's idea and project turns, one after the other, a project      *)
(* turn on an in_progress project running the pipeline on its next task.   *)
(***************************************************************************)
NextTurn ==
    \/ TurnAddIdea
    \/ \E n \in 1..MaxIdeas, d \in Decompositions : TurnPromote(n, d)
    \/ \E n \in 1..MaxIdeas : TurnArchive(n)
    \/ \E u \in {"pause project", "cancel project"} : TurnPause(u)
    \/ \E u \in OtherUtterances, d \in Decompositions : TurnCreate(u, d)
    \/ PipeAdvance(0)
    \/ \E ok \in BOOLEAN : PipeBuild(ok)
    \/ \E reply \in VerifierReplies : PipeVerify(reply)
    \/ \E ok \in BOOLEAN : PipeRevise(ok)
    \/ \E reply \in GuardianReplies : PipeGuardian(reply)
    \/ PipeComplete
    \/ PipeReturn

SpecTurn == Init /\ [][NextTurn]_vars

\* The same with the user sending project utterances again and again (the
\* premise "further project turns") and every awaited step of a running
\* pipeline returning.
SpecTurnLive ==
    /\ SpecTurn
    /\ SF_vars(PipeAdvance(0))
    /\ WF_vars(\E ok \in BOOLEAN : PipeBuild(ok))
    /\ WF_vars(\E reply \in VerifierReplies : PipeVerify(reply))
    /\ WF_vars(\E ok \in BOOLEAN : PipeRevise(ok))
    /\ WF_vars(\E reply \in GuardianReplies : PipeGuardian(reply))
    /\ WF_vars(PipeComplete)
    /\ WF_vars(PipeReturn)

(***************************************************************************)
(* The knowledge cache with the brain's memory gate and the verifier and   *)
(* the researcher at work, each with or without a memory engine.           *)
(***************************************************************************)
NextWorkers ==
    \/ \E out \in GenerateResults, mem \in {"none", "ok", "raise"},
          facts \in GateFacts : GateMemory(out, mem, facts)
    \/ \E m \in BOOLEAN, facts \in GateFacts : HandleVerify(m, facts)
    \/ \E m \in BOOLEAN, facts \in GateFacts : HandleResearch(m, facts)

SpecWorkers == Init /\ [][NextWorkers]_vars

(***************************************************************************)
(* Memories are stored and the consolidation job runs, in either tier,     *)
(* dry or not.                                                             *)
(***************************************************************************)
NextMem ==
    \/ \E old \in BOOLEAN, e \in Directions \cup {NullEmb}, imp \in Importances :
          MemInsert(old, e, imp)
    \/ \E tier \in {"full", "standard"}, dry \in BOOLEAN :
          RunConsolidation(tier, dry)

SpecMem == Init /\ [][NextMem]_vars

(***************************************************************************)
(* The memory gate after user turns, with graduation runs in between.      *)
(***************************************************************************)
NextGate ==
    \/ \E out \in GenerateResults, mem \in {"none", "ok", "raise"},
          facts \in GateFacts : GateMemory(out, mem, facts)
    \/ RunGraduation

SpecGate == Init /\ [][NextGate]_vars

(***************************************************************************)
(* Graduation runs over rows of any confidence, access count, age and      *)
(* last access on either side of the thresholds of the rules.              *)
(***************************************************************************)
RowConfidences == {0, 100, 500, 744, 800, 950, 1000}

NextGrad ==
    \/ \E c \in RowConfidences, a \in {0, 3, 10}, g \in {0, 31, 91},
          l \in {NoAccess, 0, 181}, x \in BOOLEAN : InsertFact(c, a, g, l, x)
    \/ RunGraduation

SpecGrad == Init /\ [][NextGrad]_vars

(***************************************************************************)
(* User messages handled one after the other.                              *)
(***************************************************************************)
NextConv ==
    \/ UserMessage
    \/ TurnReply
    \/ TurnRaise

SpecConv == Init /\ [][NextConv]_vars

(***************************************************************************)
(* Single delegations, one after the other, each child exiting in time     *)
(* with any status or outliving the timeout.                               *)
(***************************************************************************)
NextProc ==
    \/ \E agent \in SessionAgents : ProcDelegate(agent)
    \/ \E ok \in BOOLEAN : ProcSpawn(ok)
    \/ \E code \in {0, 1} : ProcChildExit(code)
    \/ ProcTimeout
    \/ ProcTake
    \/ LeftChildExit

SpecProc == Init /\ [][NextProc]_vars

(***************************************************************************)
(* Properties.                                                             *)
(***************************************************************************)
ActiveProjects == {p \in ProjectIds : projects[p] \in ActiveStatuses}

TasksOfFeature(f) == {t \in StoredTasks : tasks[t].feature_id = f}
TasksOfProject(p) == {t \in StoredTasks : tasks[t].project_id = p}
AllTerminal(ts) == \A t \in ts : tasks[t].status \in TerminalTask

\* C1: after any sequence of project-manager operations at most one project
\* has status planning or in_progress.
C1_SingleActiveProject == Cardinality(ActiveProjects) <= 1

\* A task all of whose dependency ids name stored tasks that are completed
\* or skipped, and the pending tasks of a project of which that is true.
DepsAllTerminal(t) ==
    \A d \in tasks[t].depends_on :
        d \in StoredTasks /\ tasks[d].status \in TerminalTask

Actionable(p) ==
    {t \in StoredTasks : /\ tasks[t].project_id = p
                         /\ tasks[t].status = "pending"
                         /\ DepsAllTerminal(t)}

\* C2: get_next_task(project) returns the pending task of smallest order among
\* the pending tasks whose dependencies are all completed or skipped, and
\* none exactly when the project has no such task.
C2_NextTaskIsLowestActionable ==
    pmLast.op = "get_next_task" =>
        IF Actionable(pmLast.arg) = {}
        THEN pmLast.ret = 0
        ELSE /\ pmLast.ret \in Actionable(pmLast.arg)
             /\ \A u \in Actionable(pmLast.arg) :
                    tasks[pmLast.ret].order <= tasks[u].order

\* C3: get_next_task never returns a task that lists a dependency id which is
\* not the id of a completed or skipped task (ids of no stored task included).
C3_NeverReturnsUnmetDependency ==
    (pmLast.op = "get_next_task" /\ pmLast.ret # 0) => DepsAllTerminal(pmLast.ret)

\* C4: after one decompose_into_tasks of an acyclic task set, repeatedly
\* calling get_next_task and completing the task returned returns every task
\* exactly once, each only after all of its dependencies have been completed,
\* and get_next_task returns none only after every task is completed.
Visited == {drv.visit[i] : i \in 1..Len(drv.visit)}

C4_DriveVisitsInTopologicalOrder ==
    /\ \A i, j \in 1..Len(drv.visit) : i < j => drv.visit[i] # drv.visit[j]
    /\ \A j \in 1..Len(drv.visit) :
          \A d \in tasks[drv.visit[j]].depends_on :
             \E i \in 1..(j - 1) : drv.visit[i] = d
    /\ drv.pc = "complete" =>
          \A d \in tasks[drv.cur].depends_on : tasks[d].status = "completed"
    /\ drv.pc = "done" =>
          \A t \in TasksOfProject(drv.project) :
             t \in Visited /\ tasks[t].status = "completed"

\* C4 witness: the loop has ended after three tasks, one of which had a
\* smaller order than a task it depends on.
C4_Witness ==
    /\ drv.pc = "done"
    /\ Len(drv.visit) = 3
    /\ \E t \in Visited : \E d \in tasks[t].depends_on :
          tasks[t].order < tasks[d].order

\* C5: when complete_task leaves every task of the owning feature completed or
\* skipped the feature is completed, and when it leaves every task of the
\* project completed or skipped the project is completed.

C5_CompleteTaskAutoCompletes ==
    (pmLast.op = "complete_task" /\ pmLast.arg \in StoredTasks) =>
        LET f == tasks[pmLast.arg].feature_id
            p == tasks[pmLast.arg].project_id
        IN  /\ (f \in FeatureIds /\ AllTerminal(TasksOfFeature(f)))
                  => features[f].status = "completed"
            /\ (p \in ProjectIds /\ AllTerminal(TasksOfProject(p)))
                  => projects[p] = "completed"

\* C5 witness: complete_task has just finished the last open task of a
\* feature of two tasks, and with it the project.
C5_Witness ==
    /\ pmLast.op = "complete_task" /\ pmLast.arg \in StoredTasks
    /\ tasks[pmLast.arg].feature_id \in FeatureIds
    /\ Cardinality(TasksOfFeature(tasks[pmLast.arg].feature_id)) >= 2
    /\ features[tasks[pmLast.arg].feature_id].status = "completed"
    /\ projects[tasks[pmLast.arg].project_id] = "completed"

\* C6: promote_idea on a backlog idea with no project planning or in_progress
\* sets the idea to promoted and creates exactly one project, in status
\* planning; with a project planning or in_progress it is refused and
\* creates no project.
C6_PromoteIdea ==
    [][ (pmLast'.op = "promote_idea" /\ pmLast'.arg \in IdeaIds
            /\ ideas[pmLast'.arg] = "backlog")
        => IF ActiveProjects = {}
           THEN /\ ~pmLast'.raised
                /\ ideas'[pmLast'.arg] = "promoted"
                /\ Len(projects') = Len(projects) + 1
                /\ projects'[Len(projects')] = "planning"
                /\ \A p \in ProjectIds : projects'[p] = projects[p]
           ELSE /\ pmLast'.raised
                /\ projects' = projects ]_vars

\* C6 witness: a promote_idea call was refused while a project is active.
C6_Witness ==
    /\ pmLast.op = "promote_idea" /\ pmLast.raised
    /\ pmLast.arg \in IdeaIds
    /\ ActiveProjects # {}

\* C7: for any two messages sent to the same recipient, receive never returns
\* the later-sent one before the earlier-sent one, over any sequence of send
\* and receive calls.  (Row ids grow in send order.)
C7_DeliveredInSendOrder ==
    \A i, j \in 1..Len(hist.delivered) :
        (/\ i < j
         /\ queue[hist.delivered[i]].to_agent = queue[hist.delivered[j]].to_agent)
        => hist.delivered[i] < hist.delivered[j]

\* C7 witness: two messages to one recipient were returned by two receive
\* calls of limit 1.
C7_Witness ==
    /\ hist.delivered = <<1, 2>>
    /\ queue[1].to_agent = queue[2].to_agent
    /\ busLast.op = "receive" /\ busLast.limit = 1 /\ busLast.ret = <<2>>

\* What C8 says of one receive call: at most limit messages, no message
\* twice, each addressed to the role and pending when the call was made, and
\* exactly those rows set to in_progress.
ReceiveStepOk ==
    /\ Len(busLast'.ret) <= busLast'.limit
    /\ Cardinality(Range(busLast'.ret)) = Len(busLast'.ret)
    /\ \A i \in Range(busLast'.ret) :
          /\ i \in RowIds
          /\ queue[i].to_agent = busLast'.role
          /\ queue[i].status = "pending"
    /\ Len(queue') = Len(queue)
    /\ \A i \in RowIds :
          queue'[i] = IF i \in Range(busLast'.ret)
                      THEN [queue[i] EXCEPT !.status = "in_progress"]
                      ELSE queue[i]

\* C8 (as claimed): receive(role, limit) returns at most limit messages, each
\* addressed to role and pending at the time of the call, sets exactly those
\* to in_progress, and no message is returned by receive more than once over
\* any sequence of send, receive and update_status calls.
C8_ReceiveOnce ==
    [][ busLast'.op = "receive"
        => /\ ReceiveStepOk
           /\ \A i \in Range(busLast'.ret) : hist.count[i] = 0 ]_vars

\* C8 (amended): as C8, but a message that receive has returned is returned
\* again only after an update_status call set it back to pending.
C8_ReceiveOnceUnlessRequeued ==
    [][ busLast'.op = "receive"
        => /\ ReceiveStepOk
           /\ \A i \in Range(busLast'.ret) :
                 hist.count[i] > 0 => i \in hist.requeued ]_vars

\* C8 witness: a receive call has returned a message for the second time.
C8_Witness ==
    /\ busLast.op = "receive"
    /\ \E i \in Range(busLast.ret) :
          hist.count[i] = 2 /\ queue[i].status = "in_progress"

\* C9: when two receivers on separate connections call receive for the same
\* role concurrently, no message is returned to both of them.
C9_NoMessageToBothReceivers ==
    \A i \in RowIds : Cardinality(hist.gotBy[i]) <= 1

\* C10: update_status(task_id, ...) changes only the most recent row carrying
\* that task_id; earlier rows with the same task_id and all rows with other
\* task_ids are left unchanged.
C10_UpdateOnlyLatestRow ==
    [][ busLast'.op = "update_status"
        => /\ Len(queue') = Len(queue)
           /\ \A i \in RowIds :
                 i # LatestRow(queue, busLast'.task) => queue'[i] = queue[i] ]_vars

C12_BlockIsTerminal ==
    [][ \A i \in RowIds :
           queue[i].status = "blocked" => queue'[i].status = "blocked" ]_vars

\* C13: a message sent by a non-guardian agent whose result, once it is
\* completed or failed, contains a secret pattern eventually has status
\* blocked.
C13_SecretEventuallyBlocked ==
    \A i \in 1..MaxRows :
        (/\ i \in RowIds
         /\ queue[i].from_agent # "guardian"
         /\ queue[i].status \in Finished
         /\ queue[i].result = "secret")
        ~> (i \in RowIds /\ queue[i].status = "blocked")

\* C14: when the intercept verdict for a message is FLAG, the status of its
\* row is left unchanged and the issues are stored in the row's metadata
\* (get_task on the task returns them).
C14_FlagStoredInRow ==
    [][ (grd'.scanned # grd.scanned /\ grd'.verdict = "flag")
        => /\ queue'[grd'.msg].status = queue[grd'.msg].status
           /\ "guardian_flags"
                 \in GetTask(queue', queue'[grd'.msg].task_id).metadata ]_vars

\* C15: once the usage reported on the day's bus messages totals at least
\* the daily budget, every message the intercept loop scans afterwards
\* (until the daily reset) is set to blocked.
C15_OverBudgetBlocks ==
    [][ (/\ grd'.scanned # grd.scanned
         /\ grd'.verdict # "skip"
         /\ grd.reported >= DailyBudget)
        => queue'[grd'.msg].status = "blocked" ]_vars

\* The layers that hold subtask i, and the number of depends_on entries.
LayersHolding(i) == {k \in 1..Len(dag.layers) : i \in Range(dag.layers[k])}

RECURSIVE SumDeps(_)
SumDeps(st) == IF st = <<>> THEN 0
               ELSE Len(Head(st).depends_on) + SumDeps(Tail(st))

\* C16: for every subtask list (cyclic, self-referential and out-of-range
\* depends_on entries included) layer construction terminates, after at most
\* one assign_layer call per subtask and per depends_on entry, and places
\* every subtask in exactly one layer.
C16_EverySubtaskInOneLayer ==
    dag.pc = "built" =>
        /\ \A i \in 0..(Len(dag.subtasks) - 1) : Cardinality(LayersHolding(i)) = 1
        /\ \A k \in 1..Len(dag.layers) :
              Cardinality(Range(dag.layers[k])) = Len(dag.layers[k])
        /\ dag.calls <= Len(dag.subtasks) + SumDeps(dag.subtasks)

\* C16 witness: layers were built for a list with a cycle, a subtask that
\* names itself and an out-of-range entry.
C16_Witness ==
    /\ dag.pc = "built"
    /\ Cardinality(dag.warned) >= 2
    /\ \E i \in 1..Len(dag.subtasks) : (i - 1) \in Range(dag.subtasks[i].depends_on)
    /\ \E i \in 1..Len(dag.subtasks) :
          \E d \in Range(dag.subtasks[i].depends_on) :
             d < 0 \/ d >= Len(dag.subtasks)

\* C17: a subtask at which a circular dependency is detected is placed in
\* layer 0.
C17_CycleCloserInLayerZero ==
    dag.pc = "built" => \A i \in dag.warned : dag.la[i + 1] = 0

\* The in-range depends_on entries of subtask i (the others are skipped by
\* assign_layer), and the subtasks reachable from a set along them.
DepsOf(st, i) ==
    {d \in Range(st[i + 1].depends_on) : 0 <= d /\ d < Len(st)}

RECURSIVE DepClosure(_, _, _)
DepClosure(st, S, m) ==
    IF m = 0 THEN S
    ELSE DepClosure(st, S \cup UNION {DepsOf(st, j) : j \in S}, m - 1)

Acyclic(st) ==
    \A i \in 0..(Len(st) - 1) : i \notin DepClosure(st, DepsOf(st, i), Len(st))

AllInRange(st) ==
    \A i \in 1..Len(st) :
       \A d \in Range(st[i].depends_on) : 0 <= d /\ d < Len(st)

\* C18: when the dependencies are acyclic and in range, every subtask is in a
\* strictly later layer than each subtask it depends on, and a subtask is
\* handed to delegate_parallel only after the replies of all the subtasks it
\* depends on have come back.
C18_DepsReturnedBeforeDispatch ==
    (/\ dag.pc \notin {"idle", "submitted"}
     /\ Acyclic(dag.subtasks)
     /\ AllInRange(dag.subtasks))
    => \A i \in 0..(Len(dag.subtasks) - 1) :
          \A d \in DepsOf(dag.subtasks, i) :
             /\ dag.la[d + 1] < dag.la[i + 1]
             /\ i \in dag.dispatched => d \in dag.returned

\* C18 witness: an acyclic request of three layers, one subtask with two
\* dependencies and one failed delegation, has been executed to the end.
C18_Witness ==
    /\ dag.pc = "done"
    /\ Acyclic(dag.subtasks)
    /\ Len(dag.layers) = 3
    /\ \E i \in 1..Len(dag.subtasks) : Len(dag.subtasks[i].depends_on) = 2
    /\ \E e \in dag.all_results : e.status = "failed"

\* C19: the context of every dispatched subtask holds, under prior_results,
\* the result of every subtask of an earlier layer.
C19_PriorResultsComplete ==
    \A i \in dag.dispatched :
       \A j \in 0..(Len(dag.subtasks) - 1) :
          dag.la[j + 1] < dag.la[i + 1] => j \in dag.ctx[i]

\* C20: delegate_parallel returns one DelegationResult per submitted task,
\* the i-th for the i-th task, and each reports how its own delegation
\* ended (success exactly when that session gave its output), whatever the
\* other delegations of the call did and in whatever order they ended.
C20_OneResultPerTaskInOrder ==
    sess.pc = "done" =>
        /\ Len(sess.results) = Len(sess.tasks)
        /\ \A i \in 1..Len(sess.tasks) :
              /\ sess.ch[i] \in Fates
              /\ sess.results[i].kind = "result"
              /\ sess.results[i].child = i
              /\ sess.results[i].agent_name = sess.tasks[i]
              /\ sess.results[i].success = (sess.ch[i] = "ok")

\* C20 witness: of three delegations the third raised first, the first then
\* timed out, and the second ended last with its output.
C20_Witness ==
    /\ sess.pc = "done"
    /\ sess.ch = <<"timeout", "ok", "raise">>
    /\ sess.fin = <<3, 1, 2>>
    /\ sess.results[2].success

\* C28: a generate call whose first response is an HTTP 5xx calls the
\* provider exactly once more, and returns an error record when that second
\* call does not give a response either.
C28_ServerErrorRetriedOnce ==
    (llmc.pc = "done" /\ llmc.seen[1] \in ServerErrors)
    => /\ Len(llmc.seen) = 2
       /\ llmc.seen[2] # "ok" => llmc.result = "error"

\* The non-empty layers all of whose delegations ended in a timeout.
TimedOutLayers ==
    {k \in 1..Len(dag.layers) :
        /\ dag.layers[k] # <<>>
        /\ Range(dag.layers[k]) \subseteq dag.timedout}

\* C21: when every delegation of a layer timed out, _handle_complex still
\* returns a reply, and the results it returns hold an entry with status
\* failed for every subtask of that layer.
C21_TimedOutLayerRecordedFailed ==
    (dag.pc = "replied" /\ TimedOutLayers # {})
    => /\ dag.reply # NoReply
       /\ \A k \in TimedOutLayers : \A i \in Range(dag.layers[k]) :
              \E e \in dag.all_results : e.idx = i /\ e.status = "failed"

\* C22: when the generate call of the synthesis fails, the reply is the
\* concatenation of the content / notes of the completed worker results.
C22_FailedSynthesisConcatenates ==
    (dag.pc = "replied" /\ dag.llm_result = "error"
        /\ CompletedParts(dag.all_results) # {})
    => /\ dag.reply.kind = "concat"
       /\ dag.reply.parts = CompletedParts(dag.all_results)

\* C23: one run of the task pipeline delegates to the builder at most
\* 1 + MAX_BUILDER_RETRIES = 3 times, and once the verifier has rejected
\* the output three times the task is failed and the run is over: three
\* builder and three verifier delegations, none to the guardian.
C23_BuilderAtMostThreeTimes ==
    /\ pipe.builds <= 3
    /\ pipe.retries = 3
       => /\ pipe.pc = "returned"
          /\ tasks[pipe.task].status = "failed"
          /\ pipe.builds = 3 /\ pipe.verifies = 3 /\ pipe.guards = 0

C23_Witness ==
    /\ pipe.pc = "returned" /\ pipe.outcome = "rejected"
    /\ pipe.retries = 3 /\ pipe.builds = 3
    /\ tasks[pipe.task].status = "failed"

\* C24: after a guardian BLOCK the task is failed, its project is still
\* in_progress, and when another pending task of the project has all its
\* dependencies completed or skipped, get_next_task returns a pending task
\* other than the failed one, of an order no larger than that task's.
C24_BlockFailsTaskOnly ==
    (pipe.pc = "returned" /\ pipe.outcome = "blocked")
    => /\ tasks[pipe.task].status = "failed"
       /\ projects[pipe.project] = "in_progress"
       /\ \A u \in Actionable(pipe.project) \ {pipe.task} :
             \A r \in NextTask(tasks, pipe.project) :
                /\ r # 0 /\ r # pipe.task
                /\ tasks[r].status = "pending"
                /\ tasks[r].project_id = pipe.project
                /\ tasks[r].order <= tasks[u].order

C24_Witness ==
    /\ pipe.pc = "returned" /\ pipe.outcome = "blocked"
    /\ tasks[pipe.task].status = "failed"
    /\ Actionable(pipe.project) \ {pipe.task} # {}
    /\ \E t \in TasksOfProject(pipe.project) : tasks[t].status = "completed"

\* C25: every row the memory gate has put into the knowledge cache was
\* stored with a confidence of at least 0.75.
C25_GateStoresOnlyConfidentFacts ==
    \A i \in 1..Len(kc.rows) :
        kc.rows[i].gated # NotGated => kc.rows[i].gated >= 750

\* The confidence the graduation rules give a row: the first rule that
\* matches, the decayed confidence rounded to two decimals.
RuleConfidence(row) ==
    IF row.access_count >= 10 /\ row.age > 90 /\ ~row.contradicted THEN 1000
    ELSE IF row.access_count >= 3 /\ row.age > 30 /\ ~row.contradicted
            /\ row.confidence < 950
    THEN 950
    ELSE IF SinceAccess(row) > 180
    THEN Round2(Max2(0, row.confidence - 100))
    ELSE row.confidence

\* C29: a graduation run leaves every row that was not permanent with the
\* confidence of the first matching rule (unchanged when none matches), and
\* with needs_reverify set when that confidence is below 0.5.
C29_GraduationAppliesFirstRule ==
    kc.last = "graduation"
    => \A i \in 1..Len(kc.rows) :
          kc.pre[i].confidence < 1000
          => /\ kc.rows[i].confidence = RuleConfidence(kc.pre[i])
             /\ RuleConfidence(kc.pre[i]) < 500 => kc.rows[i].needs_reverify

\* C30: a second graduation run that directly follows a first one leaves
\* every confidence as the first run left it.
C30_GraduationIdempotent ==
    kc.streak = 2
    => \A i \in 1..Len(kc.rows) :
          kc.rows[i].confidence = kc.pre[i].confidence

\* C26: whenever the brain has handled its messages, the conversation
\* history holds at most 50 entries, and its first two entries are the
\* first two entries ever appended.
C26_HistoryBounded ==
    conv.pc = "idle"
    => /\ Len(conv.history) <= 50
       /\ \A i \in 1..Min2(2, Len(conv.history)) : conv.history[i].n = i

\* C27: when delegate has returned because of a timeout, its result is a
\* failure and the child process of the delegation is no longer running.
C27_TimedOutChildNotRunning ==
    (proc.pc = "returned" /\ proc.result = "timeout")
    => proc.child # "running"

\* C36: a pipeline run completes its task only after a verifier session
\* that returned the verdict PASS and a guardian session that returned PASS
\* or FLAG.
C36_CompletedOnlyAfterRealPass ==
    (pipe.pc = "returned" /\ pipe.outcome = "completed")
    => /\ pipe.vreply = "PASS"
       /\ pipe.greply \in {"PASS", "FLAG"}

\* Project p has a task with status failed.
HasFailedTask(p) ==
    \E t \in StoredTasks : tasks[t].project_id = p /\ tasks[t].status = "failed"

\* C38: once a task of a project has failed, project turns still bring the
\* project to status completed.
C38_FailedProjectStillCompletes ==
    \A p \in 1..MaxProjects :
        [](HasFailedTask(p) => <>(p \in ProjectIds /\ projects[p] = "completed"))

\* No project with a failed task has status completed.
FailedProjectNotCompleted ==
    \A p \in ProjectIds : HasFailedTask(p) => projects[p] # "completed"

\* C40: the brain says that a project is complete only when every task of
\* the project is completed or skipped and the project has status completed.
C40_CompleteNoticeOnlyWhenComplete ==
    turn.said = "complete"
    => /\ AllTerminal(TasksOfProject(turn.project))
       /\ projects[turn.project] = "completed"

\* C35: when promote_idea is refused because a project is active, the idea
\* is still in the backlog and list_ideas still returns it.
C35_RefusedPromoteKeepsIdea ==
    (turn.op = "promote" /\ turn.said = "refused")
    => /\ ideas[turn.idea] = "backlog"
       /\ turn.idea \in Range(ListIdeas(ideas))

\* C33: after 'pause project' has paused the active project, 'resume
\* project' makes that project the active one again and creates no project.
C33_ResumeReactivatesPaused ==
    (/\ turn.utter = "resume project"
     /\ turn.prev.op = "pause" /\ turn.prev.project # 0)
    => /\ GetActiveProject = turn.prev.project
       /\ turn.created = 0

\* C34: the number announced when an idea is added names that idea: the
\* 'promote idea N' that follows promotes the idea just added.
C34_AnnouncedNumberNamesAddedIdea ==
    (/\ turn.op = "promote" /\ turn.prev.op = "add_idea"
     /\ turn.n = turn.prev.n)
    => turn.idea = turn.prev.idea

\* C37: when the turn that created a project ends, the project has a stored
\* task and status in_progress.
C37_CreatedProjectInProgress ==
    (turn.op \in {"create", "promote"} /\ turn.created # 0)
    => /\ projects[turn.created] = "in_progress"
       /\ TasksOfProject(turn.created) # {}

\* C39: an update_status call without a result leaves the stored result of
\* every row as it was, and a call without an error leaves the stored error
\* as it was.
C39_UpdateStatusKeepsOmittedFields ==
    [][\A k \in BusTasks, u \in StatusCalls :
          UpdateStatus(k, u[1], u[2], u[3])
          => \A i \in RowIds :
                /\ u[2] = "null" => queue'[i].result = queue[i].result
                /\ u[3] = "null" => queue'[i].error = queue[i].error]_vars

\* The rows the last consolidation run inserted, and the memories in the
\* clusters of two or more it found.
NewRows == (Len(memdb.pre) + 1)..Len(memdb.rows)

Clustered == UNION {memdb.run.clusters[k] : k \in 1..Len(memdb.run.clusters)}

\* C31: after a consolidation run that is not a dry run, every cluster of
\* two or more old short-term memories has exactly one new long-term row,
\* a consolidated_into link from each member to that row, and none of its
\* members left; and a memory outside these clusters is gone only if the
\* pruning of the standard tier deleted it.

C31_ConsolidationMergesClusters ==
    (memdb.run.op = "run" /\ ~memdb.run.dry_run)
    => /\ \A k \in 1..Len(memdb.run.clusters) :
             LET c == memdb.run.clusters[k]
                 made == {s \in NewRows : memdb.rows[s].from = c}
             IN  /\ Cardinality(c) >= 2
                 /\ \A m \in c : /\ memdb.pre[m].tier = "short_term"
                                 /\ memdb.pre[m].old
                 /\ Cardinality(made) = 1
                 /\ \A s \in made :
                       /\ memdb.rows[s].tier = "long_term"
                       /\ memdb.rows[s].present
                       /\ \A m \in c :
                             {l \in memdb.links : l[1] = m /\ l[2] \in NewRows}
                                = {<<m, s>>}
                 /\ \A m \in c : ~memdb.rows[m].present
       /\ Cardinality(NewRows) = Len(memdb.run.clusters)
       /\ \A i \in 1..Len(memdb.pre) :
             (memdb.pre[i].present /\ i \notin Clustered /\ ~memdb.rows[i].present)
             => /\ memdb.run.tier # "full"
                /\ memdb.pre[i].tier = "short_term"
                /\ memdb.pre[i].importance < PRUNE_THRESHOLD

\* C31 witness: a run that merged a cluster and left an old short-term
\* memory outside every cluster in place.
C31_Witness ==
    /\ memdb.run.op = "run" /\ ~memdb.run.dry_run
    /\ Len(memdb.run.clusters) >= 1
    /\ \E i \in 1..Len(memdb.pre) :
          /\ i \notin Clustered
          /\ memdb.pre[i].old /\ memdb.pre[i].tier = "short_term"
          /\ memdb.rows[i].present

\* C32: no agent other than the brain writes to the knowledge cache: the
\* last write is never one by the builder, verifier, researcher or guardian.
C32_OnlyBrainWrites ==
    kc.last \notin {"builder", "verifier", "researcher", "guardian"}

====
